---- MODULE Spec2Model ----
(***************************************************************************)
(* A model of the pragma-sdk fetch / publish pipeline.                     *)
(*                                                                         *)
(*   - OracleMixin (pragma/core/mixins/oracle.py): the paginated write     *)
(*     paths publish_many, set_checkpoints, set_future_checkpoints and     *)
(*     the single-call write methods, every await of an oracle             *)
(*     write call being a step of its own.  Specification Spec.            *)
(*   - the source fetchers CexFetcher, CoinbaseFetcher,                    *)
(*     BinanceFutureFetcher and OkxFutureFetcher: fetch (asyncio) and      *)
(*     fetch_sync (blocking) run one after the other over the same asset   *)
(*     list and the same source responses.  Specification FetchSpec.       *)
(*   - _construct of the four fetchers: the fields of the entry built      *)
(*     from one parsed payload.  Specification ConstructSpec.              *)
(***************************************************************************)
EXTENDS Integers, Sequences, FiniteSets, TLC

VARIABLES
    \* ---- OracleMixin ----
    is_user_client,   \* the client holds an account (write authorization)
    op,               \* per caller: the method invoked
    entries,          \* per caller: publish_many's entries argument
    pair_ids,         \* per caller: the pair_ids (or pair_id) argument
    expiry_timestamps,\* per caller: the expiry_timestamps (or expiry_timestamp) argument
    pagination,       \* per caller: Optional[int], <<>> is None, <<n>> is n
    pc,               \* per caller: position in the method
    grp,              \* per caller: the block of publish_many being run
    ix,               \* per caller: the local ix
    invocations,      \* per caller: the local list invocations
    invocation,       \* per caller: the local invocation, <<>> while unbound
    ret,              \* per caller: what the method returned or raised
    writes,           \* the write calls issued to the oracle, in issue order
    \* ---- fetchers ----
    fetcher,          \* the fetcher class under test
    assets,           \* self.assets
    responses,        \* per asset position: what the source answers for it
    mode,             \* "fetch" (asyncio) or "fetch_sync"
    fpc,              \* position in fetch / fetch_sync
    pos,              \* the asset the for loop is at (1-based)
    inst,             \* OKX: the instrument whose expiry is being looked up
    tasks,            \* fetch of a spot fetcher: the futures handed to gather
    f_entries,        \* the local list entries of fetch / fetch_sync
    future_entries,   \* OKX _fetch_pair: the local list future_entries
    requests,         \* the HTTP requests of the current run, in issue order
    outcome,          \* what the current run returned or raised
    async_outcome,    \* what fetch returned or raised, kept for fetch_sync
    \* ---- _construct ----
    c_fetcher,        \* the fetcher whose _construct is called
    c_asset,          \* its asset argument
    c_data,           \* its result / data argument: the parsed payload
    c_entry,          \* what _construct returned or raised
    \* ---- get_spot / get_future ----
    r_op,             \* the read method called
    r_pair_id,        \* its pair_id argument
    r_expiry,         \* get_future: its expiry_timestamp argument, else <<>>
    r_sources,        \* its sources argument
    r_pc,             \* position in the method
    r_calls,          \* the oracle operations the method has invoked, in order
    r_ret             \* what the method returned or raised

oracle_vars == <<is_user_client, op, entries, pair_ids, expiry_timestamps, pagination,
                 pc, grp, ix, invocations, invocation, ret, writes>>

fetch_vars == <<fetcher, assets, responses, mode, fpc, pos, inst, tasks,
                f_entries, future_entries, requests, outcome, async_outcome>>

construct_vars == <<c_fetcher, c_asset, c_data, c_entry>>

read_vars == <<r_op, r_pair_id, r_expiry, r_sources, r_pc, r_calls, r_ret>>

vars == <<oracle_vars, fetch_vars, construct_vars, read_vars>>

-----------------------------------------------------------------------------
(* Bounds of the model *)

MaxEntries == 3    \* longest entries / pair_ids list
MaxPage == 3       \* largest page size
MaxCalls == 6      \* cap on the write calls issued in one behaviour
MaxAssets == 2     \* longest asset list of a fetcher
MaxInst == 2       \* most instruments a future source lists for one asset

-----------------------------------------------------------------------------
(* Python helpers *)

Min(a, b) == IF a < b THEN a ELSE b
Max(a, b) == IF a > b THEN a ELSE b

\* A slice bound as Python clamps it for a list of length n.
PyBound(k, n) == IF k < 0 THEN Max(k + n, 0) ELSE Min(k, n)

\* s[a:b] of a Python list (0-based, negative bounds count from the end).
PySlice(s, a, b) ==
    LET lo == PyBound(a, Len(s))
        hi == PyBound(b, Len(s))
    IN  IF lo < hi THEN SubSeq(s, lo + 1, hi) ELSE <<>>

\* Truth value of an Optional[int]: None and 0 are false.
Truthy(p) == p # <<>> /\ p[1] # 0

None == [kind |-> "None"]
Pending == [kind |-> "pending"]
Returned(v) == [kind |-> "value", val |-> v]
Raised(e) == [kind |-> "raise", exc |-> e]

-----------------------------------------------------------------------------
(* OracleMixin *)

Callers == {1, 2}

Kinds == {"Spot", "Future"}

\* Entry lists: the i-th entry carries i, so every entry of a list is distinct.
EntryLists ==
    UNION {[1..n -> Kinds] : n \in 0..MaxEntries}

MkEntries(ks) == [i \in 1..Len(ks) |-> [kind |-> ks[i], id |-> i]]

PairIdLists ==
    UNION {{s \in [1..n -> 1..MaxEntries] : \A i, j \in 1..n : s[i] = s[j] => i = j}
           : n \in 0..MaxEntries}

Paginations == {<<>>} \cup {<<n>> : n \in (-1)..MaxPage}

\* SpotEntry.serialize_entries / FutureEntry.serialize_entries: the entries of
\* the class's own kind, serialized, in their original order.
serialize_entries(kind, es) == SelectSeq(es, LAMBDA e : e.kind = kind)

\* DataType(DataTypes.SPOT, pair_id, None).serialize()
DataTypeSerialize(kind, pair_id, expiration) ==
    IF kind = "SPOT" THEN <<"SpotEntry", pair_id>>
    ELSE <<"FutureEntry", pair_id, expiration>>

\* serialized_spot_entries[ix : ix + pagination], pair_ids[ix : ix + pagination]
EntriesSubsetShort(s, i, p) == PySlice(s, i, i + p - 1)
EntriesSubset(s, i, p) == PySlice(s, i, i + p)

\* [{"Spot": entry} for entry in entries_subset]
EnvelopesAllSpot(tag, es) == [i \in 1..Len(es) |-> [tag |-> "Spot", entry |-> es[i]]]
Envelopes(tag, es) == [i \in 1..Len(es) |-> [tag |-> tag, entry |-> es[i]]]

\* The write call a caller has in flight, if any.
InFlightAny(c) == {k \in 1..Len(writes) : writes[k].status = "inflight"}
InFlight(c) == {k \in 1..Len(writes) : writes[k].caller = c /\ writes[k].status = "inflight"}

\* await self.oracle.functions[fn].invoke(...): the call is handed to the oracle.
Invoke(c, fn, args, at) ==
    writes' = Append(writes, [caller |-> c, fn |-> fn, grp |-> grp[c], args |-> args,
                              ix |-> at, status |-> "inflight"])

\* pagination: Optional[int] = 15 of set_checkpoints / set_future_checkpoints
DefaultCheckpointPagination == 15

CheckpointPaginations == Paginations \cup {<<DefaultCheckpointPagination>>}

\* The methods that make a single write call.
SingleOps == {"publish_spot_entry", "set_checkpoint", "set_future_checkpoint"}

Ops == {"publish_many", "set_checkpoints", "set_future_checkpoints"} \cup SingleOps

ExpiryLists == {<<>>, <<7>>, <<7, 8>>}

\* The arguments a method can be called with.
OracleInputs(o) ==
    CASE o = "publish_many" ->
            {[entries |-> MkEntries(ks), pair_ids |-> <<>>, expiry_timestamps |-> <<>>,
              pagination |-> p] : ks \in EntryLists, p \in Paginations}
      [] o = "set_checkpoints" ->
            {[entries |-> <<>>, pair_ids |-> s, expiry_timestamps |-> <<>>,
              pagination |-> p] : s \in PairIdLists, p \in CheckpointPaginations}
      [] o = "set_future_checkpoints" ->
            {[entries |-> <<>>, pair_ids |-> s, expiry_timestamps |-> e,
              pagination |-> p] : s \in PairIdLists, e \in ExpiryLists, p \in CheckpointPaginations}
      [] o = "publish_spot_entry" ->
            {[entries |-> MkEntries(<<"Spot">>), pair_ids |-> <<>>, expiry_timestamps |-> <<>>,
              pagination |-> <<>>]}
      [] o = "set_checkpoint" ->
            {[entries |-> <<>>, pair_ids |-> <<i>>, expiry_timestamps |-> <<>>,
              pagination |-> <<>>] : i \in 1..MaxEntries}
      [] o = "set_future_checkpoint" ->
            {[entries |-> <<>>, pair_ids |-> <<i>>, expiry_timestamps |-> <<7>>,
              pagination |-> <<>>] : i \in 1..MaxEntries}

OracleInit ==
    /\ is_user_client \in BOOLEAN
    /\ \E o \in Ops : \E in \in OracleInputs(o) :
          /\ op = [c \in Callers |-> IF c = 1 THEN o ELSE "idle"]
          /\ entries = [c \in Callers |-> IF c = 1 THEN in.entries ELSE <<>>]
          /\ pair_ids = [c \in Callers |-> IF c = 1 THEN in.pair_ids ELSE <<>>]
          /\ expiry_timestamps = [c \in Callers |-> IF c = 1 THEN in.expiry_timestamps ELSE <<>>]
          /\ pagination = [c \in Callers |-> IF c = 1 THEN in.pagination ELSE <<>>]
    /\ pc = [c \in Callers |-> IF op[c] = "idle" THEN "idle" ELSE "start"]
    /\ grp = [c \in Callers |-> "none"]
    /\ ix = [c \in Callers |-> 0]
    /\ invocations = [c \in Callers |-> <<>>]
    /\ invocation = [c \in Callers |-> <<>>]
    /\ ret = [c \in Callers |-> Pending]
    /\ writes = <<>>

\* No OracleMixin method is called.
OracleIdle ==
    /\ is_user_client = FALSE
    /\ op = [c \in Callers |-> "idle"]
    /\ entries = [c \in Callers |-> <<>>]
    /\ pair_ids = [c \in Callers |-> <<>>]
    /\ expiry_timestamps = [c \in Callers |-> <<>>]
    /\ pagination = [c \in Callers |-> <<>>]
    /\ pc = [c \in Callers |-> "idle"]
    /\ grp = [c \in Callers |-> "none"]
    /\ ix = [c \in Callers |-> 0]
    /\ invocations = [c \in Callers |-> <<>>]
    /\ invocation = [c \in Callers |-> <<>>]
    /\ ret = [c \in Callers |-> Pending]
    /\ writes = <<>>

\* No fetcher is run.
FetchIdle ==
    /\ fetcher = "none"
    /\ assets = <<>>
    /\ responses = <<>>
    /\ mode = "idle"
    /\ fpc = "idle"
    /\ pos = 1
    /\ inst = 0
    /\ tasks = <<>>
    /\ f_entries = <<>>
    /\ future_entries = <<>>
    /\ requests = <<>>
    /\ outcome = Pending
    /\ async_outcome = Pending

\* No _construct is called.
ConstructIdle ==
    /\ c_fetcher = "none"
    /\ c_asset = <<>>
    /\ c_data = <<>>
    /\ c_entry = Pending

\* No read method is called.
ReadIdle ==
    /\ r_op = "none"
    /\ r_pair_id = [type |-> "NoneType", s |-> "", n |-> 0]
    /\ r_expiry = <<>>
    /\ r_sources = [kind |-> "None", v |-> <<>>]
    /\ r_pc = "idle"
    /\ r_calls = <<>>
    /\ r_ret = Pending

Init == OracleInit /\ FetchIdle /\ ConstructIdle /\ ReadIdle

\* ---- publish_many ----

\* if len(entries) == 0: logger.warning(...); return
PublishManyEmptyRaises(c) ==
    /\ op[c] = "publish_many" /\ pc[c] = "start"
    /\ Len(entries[c]) = 0
    /\ pc' = [pc EXCEPT ![c] = "raised"]
    /\ ret' = [ret EXCEPT ![c] = Raised("ValueError")]
    /\ UNCHANGED <<read_vars, construct_vars, fetch_vars, is_user_client, op, entries, pair_ids, expiry_timestamps,
                   pagination, grp, ix,
                   invocations, invocation, writes>>

PublishManyEmpty(c) ==
    /\ op[c] = "publish_many" /\ pc[c] = "start"
    /\ Len(entries[c]) = 0
    /\ pc' = [pc EXCEPT ![c] = "done"]
    /\ ret' = [ret EXCEPT ![c] = None]
    /\ UNCHANGED <<read_vars, construct_vars, fetch_vars, is_user_client, op, entries, pair_ids, expiry_timestamps,
                   pagination, grp, ix,
                   invocations, invocation, writes>>

\* invocations = []; serialized_spot_entries = ...; if pagination: ix = 0
PublishManyBegin(c) ==
    /\ op[c] = "publish_many" /\ pc[c] = "start"
    /\ Len(entries[c]) # 0
    /\ invocations' = [invocations EXCEPT ![c] = <<>>]
    /\ grp' = [grp EXCEPT ![c] = "Spot"]
    /\ ix' = [ix EXCEPT ![c] = IF Truthy(pagination[c]) THEN 0 ELSE ix[c]]
    /\ pc' = [pc EXCEPT ![c] = "loop"]
    /\ UNCHANGED <<read_vars, construct_vars, fetch_vars, is_user_client, op, entries, pair_ids, expiry_timestamps,
                   pagination, invocation,
                   ret, writes>>

\* The block after the one for group g: the future block, then
\* return invocations (invs: the handles appended so far).
PublishManyAfterSpotAgain(c, g, invs) ==
    /\ grp' = [grp EXCEPT ![c] = IF g = "Spot" THEN "Future" ELSE "Spot"]
    /\ ix' = [ix EXCEPT ![c] = IF Truthy(pagination[c]) THEN 0 ELSE ix[c]]
    /\ pc' = [pc EXCEPT ![c] = "loop"]
    /\ ret' = ret

PublishManyAfter(c, g, invs) ==
    IF g = "Spot"
    THEN /\ grp' = [grp EXCEPT ![c] = "Future"]
         /\ ix' = [ix EXCEPT ![c] = IF Truthy(pagination[c]) THEN 0 ELSE ix[c]]
         /\ pc' = [pc EXCEPT ![c] = "loop"]
         /\ ret' = ret
    ELSE /\ grp' = grp
         /\ ix' = ix
         /\ pc' = [pc EXCEPT ![c] = "done"]
         /\ ret' = [ret EXCEPT ![c] = Returned(invs)]

\* while ix < len(serialized): entries_subset = serialized[ix : ix + pagination];
\* invocation = await ...invoke(new_entries=[{tag: entry} ...])
PublishManyIssueNoAwait(c) ==
    LET ser == serialize_entries(grp[c], entries[c])
        p == pagination[c][1]
    IN  /\ op[c] = "publish_many" /\ pc[c] = "loop"
        /\ Truthy(pagination[c])
        /\ ix[c] < Len(ser)
        /\ Len(writes) < MaxCalls
        /\ Invoke(c, "publish_data_entries",
                  Envelopes(grp[c], EntriesSubset(ser, ix[c], p)), ix[c])
        /\ ix' = [ix EXCEPT ![c] = ix[c] + p]
        /\ UNCHANGED <<read_vars, construct_vars, fetch_vars, is_user_client, op, entries, pair_ids, expiry_timestamps,
                   pagination, grp, pc,
                       invocations, invocation, ret>>

PublishManyIssue(c) ==
    LET ser == serialize_entries(grp[c], entries[c])
        p == pagination[c][1]
    IN  /\ op[c] = "publish_many" /\ pc[c] = "loop"
        /\ Truthy(pagination[c])
        /\ ix[c] < Len(ser)
        /\ Len(writes) < MaxCalls
        /\ Invoke(c, "publish_data_entries",
                  Envelopes(grp[c], EntriesSubset(ser, ix[c], p)), ix[c])
        /\ pc' = [pc EXCEPT ![c] = "wait"]
        /\ UNCHANGED <<read_vars, construct_vars, fetch_vars, is_user_client, op, entries, pair_ids, expiry_timestamps,
                   pagination, grp, ix,
                       invocations, invocation, ret>>

\* The while condition fails: on to the next block.
PublishManyLoopExit(c) ==
    LET ser == serialize_entries(grp[c], entries[c])
    IN  /\ op[c] = "publish_many" /\ pc[c] = "loop"
        /\ Truthy(pagination[c])
        /\ ~(ix[c] < Len(ser))
        /\ PublishManyAfter(c, grp[c], invocations[c])
        /\ UNCHANGED <<read_vars, construct_vars, fetch_vars, is_user_client, op, entries, pair_ids, expiry_timestamps,
                   pagination,
                       invocations, invocation, writes>>

\* elif len(serialized) > 0: invocation = await ...invoke(all of them)
PublishManyIssueAll(c) ==
    LET ser == serialize_entries(grp[c], entries[c])
    IN  /\ op[c] = "publish_many" /\ pc[c] = "loop"
        /\ ~Truthy(pagination[c])
        /\ Len(ser) > 0
        /\ Len(writes) < MaxCalls
        /\ Invoke(c, "publish_data_entries", Envelopes(grp[c], ser), 0)
        /\ pc' = [pc EXCEPT ![c] = "wait_all"]
        /\ UNCHANGED <<read_vars, construct_vars, fetch_vars, is_user_client, op, entries, pair_ids, expiry_timestamps,
                   pagination, grp, ix,
                       invocations, invocation, ret>>

PublishManySkip(c) ==
    LET ser == serialize_entries(grp[c], entries[c])
    IN  /\ op[c] = "publish_many" /\ pc[c] = "loop"
        /\ ~Truthy(pagination[c])
        /\ ~(Len(ser) > 0)
        /\ PublishManyAfter(c, grp[c], invocations[c])
        /\ UNCHANGED <<read_vars, construct_vars, fetch_vars, is_user_client, op, entries, pair_ids, expiry_timestamps,
                   pagination,
                       invocations, invocation, writes>>

\* The awaited write call returns its InvokeResult: ix += pagination;
\* invocations.append(invocation)
PublishManyResumeKeepsLast(c) ==
    /\ op[c] = "publish_many" /\ pc[c] \in {"wait", "wait_all"}
    /\ \E k \in InFlight(c) :
         LET h == [hash |-> k, n |-> Len(writes[k].args)]
             invs == <<h>>
         IN  /\ writes' = [writes EXCEPT ![k].status = "returned"]
             /\ invocation' = [invocation EXCEPT ![c] = <<h>>]
             /\ invocations' = [invocations EXCEPT ![c] = invs]
             /\ IF pc[c] = "wait"
                THEN /\ ix' = [ix EXCEPT ![c] = ix[c] + pagination[c][1]]
                     /\ pc' = [pc EXCEPT ![c] = "loop"]
                     /\ UNCHANGED <<grp, ret>>
                ELSE PublishManyAfter(c, grp[c], invs)
    /\ UNCHANGED <<read_vars, construct_vars, fetch_vars, is_user_client, op, entries, pair_ids, expiry_timestamps,
                   pagination>>

PublishManyResume(c) ==
    /\ op[c] = "publish_many" /\ pc[c] \in {"wait", "wait_all"}
    /\ \E k \in InFlight(c) :
         LET h == [hash |-> k, n |-> Len(writes[k].args)]
             invs == Append(invocations[c], h)
         IN  /\ writes' = [writes EXCEPT ![k].status = "returned"]
             /\ invocation' = [invocation EXCEPT ![c] = <<h>>]
             /\ invocations' = [invocations EXCEPT ![c] = invs]
             /\ IF pc[c] = "wait"
                THEN /\ ix' = [ix EXCEPT ![c] = ix[c] + pagination[c][1]]
                     /\ pc' = [pc EXCEPT ![c] = "loop"]
                     /\ UNCHANGED <<grp, ret>>
                ELSE PublishManyAfter(c, grp[c], invs)
    /\ UNCHANGED <<read_vars, construct_vars, fetch_vars, is_user_client, op, entries, pair_ids, expiry_timestamps,
                   pagination>>

\* ---- set_checkpoints ----

\* if not self.is_user_client: raise AttributeError("Must set account. ...")
SetCheckpointsUnauthorized(c) ==
    /\ op[c] = "set_checkpoints" /\ pc[c] = "start"
    /\ ~is_user_client
    /\ pc' = [pc EXCEPT ![c] = "raised"]
    /\ ret' = [ret EXCEPT ![c] = Raised("AttributeError")]
    /\ UNCHANGED <<read_vars, construct_vars, fetch_vars, is_user_client, op, entries, pair_ids, expiry_timestamps,
                   pagination, grp, ix,
                   invocations, invocation, writes>>

\* if pagination: ix = 0
SetCheckpointsBegin(c) ==
    /\ op[c] = "set_checkpoints" /\ pc[c] = "start"
    /\ is_user_client
    /\ grp' = [grp EXCEPT ![c] = "Checkpoint"]
    /\ ix' = [ix EXCEPT ![c] = IF Truthy(pagination[c]) THEN 0 ELSE ix[c]]
    /\ pc' = [pc EXCEPT ![c] = "loop"]
    /\ UNCHANGED <<read_vars, construct_vars, fetch_vars, is_user_client, op, entries, pair_ids, expiry_timestamps,
                   pagination, invocations,
                   invocation, ret, writes>>

\* [DataType(DataTypes.SPOT, pair_id, None).serialize() for pair_id in subset]
CheckpointArgs(ids) == [i \in 1..Len(ids) |-> DataTypeSerialize("SPOT", ids[i], <<>>)]

\* return invocation: an UnboundLocalError when no call was ever made
ReturnInvocation(c) ==
    IF invocation[c] = <<>>
    THEN /\ pc' = [pc EXCEPT ![c] = "raised"]
         /\ ret' = [ret EXCEPT ![c] = Raised("UnboundLocalError")]
    ELSE /\ pc' = [pc EXCEPT ![c] = "done"]
         /\ ret' = [ret EXCEPT ![c] = Returned(invocation[c][1])]

\* while ix < len(pair_ids): pair_ids_subset = pair_ids[ix : ix + pagination];
\* invocation = await self.oracle.set_checkpoints.invoke([...], ...)
SetCheckpointsIssue(c) ==
    LET p == pagination[c][1]
    IN  /\ op[c] = "set_checkpoints" /\ pc[c] = "loop"
        /\ Truthy(pagination[c])
        /\ ix[c] < Len(pair_ids[c])
        /\ Len(writes) < MaxCalls
        /\ Invoke(c, "set_checkpoints",
                  CheckpointArgs(EntriesSubset(pair_ids[c], ix[c], p)), ix[c])
        /\ pc' = [pc EXCEPT ![c] = "wait"]
        /\ UNCHANGED <<read_vars, construct_vars, fetch_vars, is_user_client, op, entries, pair_ids, expiry_timestamps,
                   pagination, grp, ix,
                       invocations, invocation, ret>>

SetCheckpointsLoopExit(c) ==
    /\ op[c] = "set_checkpoints" /\ pc[c] = "loop"
    /\ Truthy(pagination[c])
    /\ ~(ix[c] < Len(pair_ids[c]))
    /\ ReturnInvocation(c)
    /\ UNCHANGED <<read_vars, construct_vars, fetch_vars, is_user_client, op, entries, pair_ids, expiry_timestamps,
                   pagination, grp, ix,
                   invocations, invocation, writes>>

\* else: invocation = await self.oracle.set_checkpoints.invoke(all pair ids)
SetCheckpointsIssueAll(c) ==
    /\ op[c] = "set_checkpoints" /\ pc[c] = "loop"
    /\ ~Truthy(pagination[c])
    /\ Len(writes) < MaxCalls
    /\ Invoke(c, "set_checkpoints", CheckpointArgs(pair_ids[c]), 0)
    /\ pc' = [pc EXCEPT ![c] = "wait_all"]
    /\ UNCHANGED <<read_vars, construct_vars, fetch_vars, is_user_client, op, entries, pair_ids, expiry_timestamps,
                   pagination, grp, ix,
                   invocations, invocation, ret>>

\* The awaited write call returns: ix += pagination (in the loop), or return
\* invocation (after the single call).
SetCheckpointsResumeSkips(c) ==
    /\ op[c] = "set_checkpoints" /\ pc[c] \in {"wait", "wait_all"}
    /\ \E k \in InFlight(c) :
         LET h == [hash |-> k, n |-> Len(writes[k].args)]
         IN  /\ writes' = [writes EXCEPT ![k].status = "returned"]
             /\ invocation' = [invocation EXCEPT ![c] = <<h>>]
             /\ IF pc[c] = "wait"
                THEN /\ ix' = [ix EXCEPT ![c] = ix[c] + pagination[c][1] + 1]
                     /\ pc' = [pc EXCEPT ![c] = "loop"]
                     /\ ret' = ret
                ELSE /\ ix' = ix
                     /\ pc' = [pc EXCEPT ![c] = "done"]
                     /\ ret' = [ret EXCEPT ![c] = Returned(h)]
    /\ UNCHANGED <<read_vars, construct_vars, fetch_vars, is_user_client, op, entries, pair_ids, expiry_timestamps,
                   pagination, grp,
                   invocations>>

SetCheckpointsResume(c) ==
    /\ op[c] = "set_checkpoints" /\ pc[c] \in {"wait", "wait_all"}
    /\ \E k \in InFlight(c) :
         LET h == [hash |-> k, n |-> Len(writes[k].args)]
         IN  /\ writes' = [writes EXCEPT ![k].status = "returned"]
             /\ invocation' = [invocation EXCEPT ![c] = <<h>>]
             /\ IF pc[c] = "wait"
                THEN /\ ix' = [ix EXCEPT ![c] = ix[c] + pagination[c][1]]
                     /\ pc' = [pc EXCEPT ![c] = "loop"]
                     /\ ret' = ret
                ELSE /\ ix' = ix
                     /\ pc' = [pc EXCEPT ![c] = "done"]
                     /\ ret' = [ret EXCEPT ![c] = Returned(h)]
    /\ UNCHANGED <<read_vars, construct_vars, fetch_vars, is_user_client, op, entries, pair_ids, expiry_timestamps,
                   pagination, grp,
                   invocations>>

\* ---- set_future_checkpoints ----

\* if not self.is_user_client: raise AttributeError("Must set account. ...")
SetFutureCheckpointsUnauthorizedLate(c) ==
    /\ op[c] = "set_future_checkpoints" /\ pc[c] = "start"
    /\ ~is_user_client
    /\ Len(writes) < MaxCalls
    /\ writes' = Append(writes, [caller |-> c, fn |-> "set_checkpoints",
                                 grp |-> "FutureCheckpoint",
                                 args |-> [pair_ids |-> pair_ids[c],
                                           expiry_timestamps |-> expiry_timestamps[c]],
                                 ix |-> 0, status |-> "raised"])
    /\ pc' = [pc EXCEPT ![c] = "raised"]
    /\ ret' = [ret EXCEPT ![c] = Raised("AttributeError")]
    /\ UNCHANGED <<read_vars, construct_vars, fetch_vars, is_user_client, op, entries, pair_ids,
                   expiry_timestamps, pagination, grp, ix, invocations, invocation>>

SetFutureCheckpointsUnauthorized(c) ==
    /\ op[c] = "set_future_checkpoints" /\ pc[c] = "start"
    /\ ~is_user_client
    /\ pc' = [pc EXCEPT ![c] = "raised"]
    /\ ret' = [ret EXCEPT ![c] = Raised("AttributeError")]
    /\ UNCHANGED <<read_vars, construct_vars, fetch_vars, is_user_client, op, entries, pair_ids,
                   expiry_timestamps, pagination, grp, ix, invocations, invocation, writes>>

\* if pagination: ix = 0
SetFutureCheckpointsBegin(c) ==
    /\ op[c] = "set_future_checkpoints" /\ pc[c] = "start"
    /\ is_user_client
    /\ grp' = [grp EXCEPT ![c] = "FutureCheckpoint"]
    /\ ix' = [ix EXCEPT ![c] = IF Truthy(pagination[c]) THEN 0 ELSE ix[c]]
    /\ pc' = [pc EXCEPT ![c] = "loop"]
    /\ UNCHANGED <<read_vars, construct_vars, fetch_vars, is_user_client, op, entries, pair_ids,
                   expiry_timestamps, pagination, invocations, invocation, ret, writes>>

\* invoke(pair_ids_subset, expiry_timestamps, ...): the ids of the page as
\* they are, and the whole list of expiry timestamps
FutureCheckpointArgs(ids, expiries) == [pair_ids |-> ids, expiry_timestamps |-> expiries]

\* while ix < len(pair_ids): pair_ids_subset = pair_ids[ix : ix + pagination];
\* invocation = await self.oracle.functions["set_checkpoints"].invoke(...)
SetFutureCheckpointsIssue(c) ==
    LET p == pagination[c][1]
    IN  /\ op[c] = "set_future_checkpoints" /\ pc[c] = "loop"
        /\ Truthy(pagination[c])
        /\ ix[c] < Len(pair_ids[c])
        /\ Len(writes) < MaxCalls
        /\ Invoke(c, "set_checkpoints",
                  FutureCheckpointArgs(EntriesSubset(pair_ids[c], ix[c], p),
                                       expiry_timestamps[c]), ix[c])
        /\ pc' = [pc EXCEPT ![c] = "wait"]
        /\ UNCHANGED <<read_vars, construct_vars, fetch_vars, is_user_client, op, entries, pair_ids,
                       expiry_timestamps, pagination, grp, ix, invocations, invocation, ret>>

SetFutureCheckpointsLoopExit(c) ==
    /\ op[c] = "set_future_checkpoints" /\ pc[c] = "loop"
    /\ Truthy(pagination[c])
    /\ ~(ix[c] < Len(pair_ids[c]))
    /\ ReturnInvocation(c)
    /\ UNCHANGED <<read_vars, construct_vars, fetch_vars, is_user_client, op, entries, pair_ids,
                   expiry_timestamps, pagination, grp, ix, invocations, invocation, writes>>

\* else: invocation = await ...invoke(pair_ids, expiry_timestamps, ...)
SetFutureCheckpointsIssueAll(c) ==
    /\ op[c] = "set_future_checkpoints" /\ pc[c] = "loop"
    /\ ~Truthy(pagination[c])
    /\ Len(writes) < MaxCalls
    /\ Invoke(c, "set_checkpoints",
              FutureCheckpointArgs(pair_ids[c], expiry_timestamps[c]), 0)
    /\ pc' = [pc EXCEPT ![c] = "wait_all"]
    /\ UNCHANGED <<read_vars, construct_vars, fetch_vars, is_user_client, op, entries, pair_ids,
                   expiry_timestamps, pagination, grp, ix, invocations, invocation, ret>>

\* The awaited write call returns: ix += pagination (in the loop), or return
\* invocation (after the single call).
SetFutureCheckpointsResume(c) ==
    /\ op[c] = "set_future_checkpoints" /\ pc[c] \in {"wait", "wait_all"}
    /\ \E k \in InFlight(c) :
         LET h == [hash |-> k, n |-> Len(writes[k].args.pair_ids)]
         IN  /\ writes' = [writes EXCEPT ![k].status = "returned"]
             /\ invocation' = [invocation EXCEPT ![c] = <<h>>]
             /\ IF pc[c] = "wait"
                THEN /\ ix' = [ix EXCEPT ![c] = ix[c] + pagination[c][1]]
                     /\ pc' = [pc EXCEPT ![c] = "loop"]
                     /\ ret' = ret
                ELSE /\ ix' = ix
                     /\ pc' = [pc EXCEPT ![c] = "done"]
                     /\ ret' = [ret EXCEPT ![c] = Returned(h)]
    /\ UNCHANGED <<read_vars, construct_vars, fetch_vars, is_user_client, op, entries, pair_ids,
                   expiry_timestamps, pagination, grp, invocations>>

\* ---- publish_spot_entry, set_checkpoint, set_future_checkpoint ----

\* if not self.is_user_client: raise AttributeError("Must set account. ...")
SingleUnauthorized(c) ==
    /\ op[c] \in SingleOps /\ pc[c] = "start"
    /\ ~is_user_client
    /\ pc' = [pc EXCEPT ![c] = "raised"]
    /\ ret' = [ret EXCEPT ![c] = Raised("AttributeError")]
    /\ UNCHANGED <<read_vars, construct_vars, fetch_vars, is_user_client, op, entries, pair_ids,
                   expiry_timestamps, pagination, grp, ix, invocations, invocation, writes>>

\* The oracle function a single-call method invokes, and its argument.
SingleFunction(o) == IF o = "publish_spot_entry" THEN "publish_data" ELSE "set_checkpoint"

SingleArgs(c) ==
    CASE op[c] = "publish_spot_entry" -> Envelopes("Spot", entries[c])
      [] op[c] = "set_checkpoint" ->
            <<DataTypeSerialize("SPOT", pair_ids[c][1], <<>>)>>
      [] op[c] = "set_future_checkpoint" ->
            <<DataTypeSerialize("FUTURE", pair_ids[c][1], expiry_timestamps[c][1])>>

\* invocation = await self.oracle.functions[...].invoke(...)
SingleInvoke(c) ==
    /\ op[c] \in SingleOps /\ pc[c] = "start"
    /\ is_user_client
    /\ Len(writes) < MaxCalls
    /\ grp' = [grp EXCEPT ![c] = "Single"]
    /\ Invoke(c, SingleFunction(op[c]), SingleArgs(c), 0)
    /\ pc' = [pc EXCEPT ![c] = "wait_all"]
    /\ UNCHANGED <<read_vars, construct_vars, fetch_vars, is_user_client, op, entries, pair_ids,
                   expiry_timestamps, pagination, ix, invocations, invocation, ret>>

\* return invocation
SingleResume(c) ==
    /\ op[c] \in SingleOps /\ pc[c] = "wait_all"
    /\ \E k \in InFlight(c) :
         LET h == [hash |-> k, n |-> Len(writes[k].args)]
         IN  /\ writes' = [writes EXCEPT ![k].status = "returned"]
             /\ invocation' = [invocation EXCEPT ![c] = <<h>>]
             /\ ret' = [ret EXCEPT ![c] = Returned(h)]
    /\ pc' = [pc EXCEPT ![c] = "done"]
    /\ UNCHANGED <<read_vars, construct_vars, fetch_vars, is_user_client, op, entries, pair_ids,
                   expiry_timestamps, pagination, grp, ix, invocations>>

\* ---- the oracle ----

\* The awaited write call raises: the error leaves the method.
InvokeRaisesReturnsPartial(c) ==
    /\ pc[c] \in {"wait", "wait_all"}
    /\ \E k \in InFlight(c) : writes' = [writes EXCEPT ![k].status = "raised"]
    /\ pc' = [pc EXCEPT ![c] = "done"]
    /\ ret' = [ret EXCEPT ![c] = Returned(invocations[c])]
    /\ UNCHANGED <<read_vars, construct_vars, fetch_vars, is_user_client, op, entries, pair_ids, expiry_timestamps,
                   pagination, grp, ix,
                   invocations, invocation>>

InvokeRaisesRetries(c) ==
    /\ pc[c] \in {"wait", "wait_all"}
    /\ \E k \in InFlight(c) : writes' = [writes EXCEPT ![k].status = "raised"]
    /\ pc' = [pc EXCEPT ![c] = "loop"]
    /\ UNCHANGED <<read_vars, construct_vars, fetch_vars, is_user_client, op, entries, pair_ids, expiry_timestamps,
                   pagination, grp, ix,
                   invocations, invocation, ret>>

InvokeRaises(c) ==
    /\ pc[c] \in {"wait", "wait_all"}
    /\ \E k \in InFlight(c) : writes' = [writes EXCEPT ![k].status = "raised"]
    /\ pc' = [pc EXCEPT ![c] = "raised"]
    /\ ret' = [ret EXCEPT ![c] = Raised("InvokeError")]
    /\ UNCHANGED <<read_vars, construct_vars, fetch_vars, is_user_client, op, entries, pair_ids, expiry_timestamps,
                   pagination, grp, ix,
                   invocations, invocation>>

OracleNext ==
    \E c \in Callers :
        \/ PublishManyEmpty(c)
        \/ PublishManyBegin(c)
        \/ PublishManyIssue(c)
        \/ PublishManyLoopExit(c)
        \/ PublishManyIssueAll(c)
        \/ PublishManySkip(c)
        \/ PublishManyResume(c)
        \/ SetCheckpointsUnauthorized(c)
        \/ SetCheckpointsBegin(c)
        \/ SetCheckpointsIssue(c)
        \/ SetCheckpointsLoopExit(c)
        \/ SetCheckpointsIssueAll(c)
        \/ SetCheckpointsResume(c)
        \/ SetFutureCheckpointsUnauthorized(c)
        \/ SetFutureCheckpointsBegin(c)
        \/ SetFutureCheckpointsIssue(c)
        \/ SetFutureCheckpointsLoopExit(c)
        \/ SetFutureCheckpointsIssueAll(c)
        \/ SetFutureCheckpointsResume(c)
        \/ SingleUnauthorized(c)
        \/ SingleInvoke(c)
        \/ SingleResume(c)
        \/ InvokeRaises(c)

Next == OracleNext

Spec == Init /\ [][Next]_vars

\* ---- every write call returns and the event loop runs the caller on ----

LiveNext ==
    \E c \in Callers :
        \/ PublishManyEmpty(c)
        \/ PublishManyBegin(c)
        \/ PublishManyIssue(c)
        \/ PublishManyLoopExit(c)
        \/ PublishManyIssueAll(c)
        \/ PublishManySkip(c)
        \/ PublishManyResume(c)
        \/ SetCheckpointsUnauthorized(c)
        \/ SetCheckpointsBegin(c)
        \/ SetCheckpointsIssue(c)
        \/ SetCheckpointsLoopExit(c)
        \/ SetCheckpointsIssueAll(c)
        \/ SetCheckpointsResume(c)
        \/ SetFutureCheckpointsUnauthorized(c)
        \/ SetFutureCheckpointsBegin(c)
        \/ SetFutureCheckpointsIssue(c)
        \/ SetFutureCheckpointsLoopExit(c)
        \/ SetFutureCheckpointsIssueAll(c)
        \/ SetFutureCheckpointsResume(c)
        \/ SingleUnauthorized(c)
        \/ SingleInvoke(c)
        \/ SingleResume(c)

LiveSpec == Init /\ [][LiveNext]_vars /\ WF_vars(LiveNext)

\* ---- two publish_many calls on one client, interleaved at their awaits ----

MaxPairEntries == 2
MaxPairPage == 2

PairEntryLists == UNION {[1..n -> Kinds] : n \in 0..MaxPairEntries}

PairPaginations == {<<>>} \cup {<<n>> : n \in 1..MaxPairPage}

\* The entries of caller c: distinct from those of the other caller.
MkEntriesOf(c, ks) ==
    [i \in 1..Len(ks) |-> [kind |-> ks[i], id |-> i + (c - 1) * MaxPairEntries]]

ConcurrentInit ==
    /\ is_user_client = TRUE
    /\ op = [c \in Callers |-> "publish_many"]
    /\ \E ks \in [Callers -> PairEntryLists] :
          entries = [c \in Callers |-> MkEntriesOf(c, ks[c])]
    /\ pair_ids = [c \in Callers |-> <<>>]
    /\ expiry_timestamps = [c \in Callers |-> <<>>]
    /\ pagination \in [Callers -> PairPaginations]
    /\ pc = [c \in Callers |-> "start"]
    /\ grp = [c \in Callers |-> "none"]
    /\ ix = [c \in Callers |-> 0]
    /\ invocations = [c \in Callers |-> <<>>]
    /\ invocation = [c \in Callers |-> <<>>]
    /\ ret = [c \in Callers |-> Pending]
    /\ writes = <<>>

ConcurrentNext ==
    \E c \in Callers :
        \/ PublishManyEmpty(c)
        \/ PublishManyBegin(c)
        \/ PublishManyIssue(c)
        \/ PublishManyLoopExit(c)
        \/ PublishManyIssueAll(c)
        \/ PublishManySkip(c)
        \/ PublishManyResume(c)
        \/ InvokeRaises(c)

ConcurrentSpecInit == ConcurrentInit /\ FetchIdle /\ ConstructIdle /\ ReadIdle

ConcurrentSpec == ConcurrentSpecInit /\ [][ConcurrentNext]_vars

-----------------------------------------------------------------------------
(* The source fetchers *)

Fetchers == {"CexFetcher", "CoinbaseFetcher", "BinanceFutureFetcher", "OkxFutureFetcher"}

SpotFetchers == {"CexFetcher", "CoinbaseFetcher"}

\* The asset type a fetcher keeps: if asset["type"] != "SPOT" / "FUTURE": continue
AssetType(f) == IF f \in SpotFetchers THEN "SPOT" ELSE "FUTURE"

\* if asset["type"] != "SPOT": continue -- the assets a fetcher does not skip
KeepsAll(f, a) == TRUE
Keeps(f, a) == a.type = AssetType(f)

\* SOURCE: str = ...
SOURCE(f) ==
    CASE f = "CexFetcher" -> "CEX"
      [] f = "CoinbaseFetcher" -> "COINBASE"
      [] f = "BinanceFutureFetcher" -> "BINANCE"
      [] f = "OkxFutureFetcher" -> "OKX"

\* The source as the fetcher spells it in its messages: f"... from CEX"
SourceName(f) ==
    CASE f = "CexFetcher" -> "CEX"
      [] f = "CoinbaseFetcher" -> "Coinbase"
      [] f = "BinanceFutureFetcher" -> "Binance"
      [] f = "OkxFutureFetcher" -> "OKX"

\* Fetchers whose source has a "symbol not recognized" payload.
HasMarker(f) == f \in {"CexFetcher", "CoinbaseFetcher", "OkxFutureFetcher"}

Pairs == <<(<<"BTC", "USD">>), (<<"ETH", "USD">>)>>

AssetCatalog ==
    {[type |-> t, pair |-> Pairs[i]] : t \in {"SPOT", "FUTURE"}, i \in 1..Len(Pairs)}

AssetLists == UNION {[1..n -> AssetCatalog] : n \in 0..MaxAssets}

\* currency_pair_to_pair_id(*pair): one integer per pair.
currency_pair_to_pair_id(pair) == CHOOSE i \in 1..Len(Pairs) : Pairs[i] = pair

\* What a source answers for one asset: the HTTP status, whether the content
\* type names json, what the body is ("data", the source's not-recognized
\* "marker", or "garbage" that does not parse as JSON), the number of
\* instruments a future source lists, and the answer ("ok" or "404") to the
\* asset's secondary requests.
AllResponses ==
    [status : {200, 404}, ctype_json : BOOLEAN, body : {"data", "marker", "garbage"},
     n : 0..MaxInst, sec : {"ok", "404"}]

ResponseFor(f, r) ==
    /\ r.status = 404 => (r.body = "garbage" /\ r.n = 0 /\ r.sec = "ok")
    /\ r.body = "marker" => HasMarker(f)
    /\ r.body # "data" => (r.n = 0 /\ r.sec = "ok")
    /\ (r.body = "data" /\ f \in SpotFetchers) => (r.n = 1 /\ r.sec = "ok")
    /\ (r.body = "data" /\ r.n = 0) => r.sec = "ok"
    /\ (r.body = "data" /\ ~r.ctype_json /\ f \notin SpotFetchers) => (r.n = MaxInst /\ r.sec = "ok")

\* The answer at the positions of assets the fetcher skips: never requested.
NoResponse == [status |-> 404, ctype_json |-> FALSE, body |-> "garbage", n |-> 0, sec |-> "ok"]

ResponsesOf(f) == {r \in AllResponses : ResponseFor(f, r)}

ResponseLists(f, as) ==
    {rs \in [1..Len(as) -> ResponsesOf(f) \cup {NoResponse}] :
        \A i \in 1..Len(as) :
            IF as[i].type = AssetType(f) THEN rs[i] \in ResponsesOf(f) ELSE rs[i] = NoResponse}

\* ---- the items of a result list ----

\* PublisherFetchError(f"No data found for {'/'.join(pair)} from CEX")
NotFound(f, a, i) ==
    [t |-> "PublisherFetchError", asset |-> i,
     message |-> <<"No data found for ", a.pair[1], "/", a.pair[2], " from ", SourceName(f)>>]

\* PublisherFetchError(f"No entry found for {pair_id} from Coinbase")
NoEntry(f, a, i) ==
    [t |-> "PublisherFetchError", asset |-> i,
     message |-> <<"No entry found for ", ToString(currency_pair_to_pair_id(a.pair)),
                   " from ", SourceName(f)>>]

\* SpotEntry(...) / FutureEntry(...) built by _construct from instrument k of
\* the response to asset i (k = 0 for a spot source).
Entry(f, a, i, k) ==
    [t |-> "Entry", asset |-> i, pair_id |-> currency_pair_to_pair_id(a.pair),
     source |-> SOURCE(f), instrument |-> k]

\* An exception gather(return_exceptions=True) hands back as an item.
ExceptionItem(e, i) == [t |-> "Exception", asset |-> i, exc |-> e]

\* What handling one response ends in: an item to append, a raised exception,
\* or the parsed payload to go on with.
Item(v) == [k |-> "item", v |-> v]
Raise(e) == [k |-> "raise", exc |-> e]
Payload == [k |-> "payload"]

\* ---- CexFetcher ----

CexConstruct(a, i, r) == Entry("CexFetcher", a, i, 0)

CexFetchPairRaisesOn404(a, i, r) ==
    IF r.status = 404 THEN Raise("ClientResponseError")
    ELSE IF ~r.ctype_json THEN Raise("ValueError")
    ELSE IF r.body = "garbage" THEN Raise("JSONDecodeError")
    ELSE IF r.body = "marker" THEN Item(NotFound("CexFetcher", a, i))
    ELSE Item(CexConstruct(a, i, r))

CexFetchPair(a, i, r) ==
    IF r.status = 404 THEN Item(NotFound("CexFetcher", a, i))
    ELSE IF ~r.ctype_json THEN Raise("ValueError")
    ELSE IF r.body = "garbage" THEN Raise("JSONDecodeError")
    ELSE IF r.body = "marker" THEN Item(NotFound("CexFetcher", a, i))
    ELSE Item(CexConstruct(a, i, r))

CexFetchPairSync(a, i, r) ==
    IF r.status = 404 THEN Item(NotFound("CexFetcher", a, i))
    ELSE IF r.body = "garbage" THEN Raise("JSONDecodeError")
    ELSE IF r.body = "marker" THEN Item(NotFound("CexFetcher", a, i))
    ELSE Item(CexConstruct(a, i, r))

\* ---- CoinbaseFetcher ----

CoinbaseConstruct(a, i, r) ==
    IF r.body = "data" THEN Entry("CoinbaseFetcher", a, i, 0)
    ELSE NoEntry("CoinbaseFetcher", a, i)

\* result = await resp.json(): aiohttp raises ContentTypeError unless the
\* content type is application/json
CoinbaseFetchPair(a, i, r) ==
    IF r.status = 404 THEN Item(NotFound("CoinbaseFetcher", a, i))
    ELSE IF ~r.ctype_json THEN Raise("ContentTypeError")
    ELSE IF r.body = "garbage" THEN Raise("JSONDecodeError")
    ELSE Item(CoinbaseConstruct(a, i, r))

\* result = resp.json(): requests parses the body whatever the content type
CoinbaseFetchPairSync(a, i, r) ==
    IF r.status = 404 THEN Item(NotFound("CoinbaseFetcher", a, i))
    ELSE IF r.body = "garbage" THEN Raise("JSONDecodeError")
    ELSE Item(CoinbaseConstruct(a, i, r))

\* ---- BinanceFutureFetcher ----

\* _fetch_pair up to the volume lookup
BinanceFetchPair(a, i, r) ==
    IF r.status = 404 THEN Item(NotFound("BinanceFutureFetcher", a, i))
    ELSE IF ~r.ctype_json THEN Raise("ValueError")
    ELSE IF r.body = "garbage" THEN Raise("JSONDecodeError")
    ELSE Payload

BinanceFetchPairSyncRaisesOn404(a, i, r) ==
    IF r.status = 404 THEN Raise("HTTPError")
    ELSE IF r.body = "garbage" THEN Raise("JSONDecodeError")
    ELSE Payload

BinanceFetchPairSync(a, i, r) ==
    IF r.status = 404 THEN Item(NotFound("BinanceFutureFetcher", a, i))
    ELSE IF r.body = "garbage" THEN Raise("JSONDecodeError")
    ELSE Payload

\* fetch_volume / fetch_volume_sync: a PublisherFetchError on 404, else the
\* list of (symbol, volume)
BinanceFetchVolume(a, i, r) ==
    IF r.sec = "404" THEN Item(NotFound("BinanceFutureFetcher", a, i)) ELSE Payload

\* _construct(asset, filtered_data, volume_arr): one FutureEntry per element
\* of filtered_data; retrieve_volume iterates volume_arr, a TypeError when it
\* is a PublisherFetchError
BinanceConstruct(a, i, n, volume_arr) ==
    IF n >= 1 /\ volume_arr.k = "item" THEN Raise("TypeError")
    ELSE [k |-> "list", v |-> [j \in 1..n |-> Entry("BinanceFutureFetcher", a, i, j)]]

\* ---- OkxFutureFetcher ----

\* _fetch_pair up to the loop over result["data"]
OkxFetchPair(a, i, r) ==
    IF r.status = 404 THEN Item(NotFound("OkxFutureFetcher", a, i))
    ELSE IF ~r.ctype_json THEN Raise("ValueError")
    ELSE IF r.body = "garbage" THEN Raise("JSONDecodeError")
    ELSE IF r.body = "marker" THEN Item(NotFound("OkxFutureFetcher", a, i))
    ELSE Payload

OkxFetchPairSync(a, i, r) ==
    IF r.status = 404 THEN Item(NotFound("OkxFutureFetcher", a, i))
    ELSE IF r.body = "garbage" THEN Raise("JSONDecodeError")
    ELSE IF r.body = "marker" THEN Item(NotFound("OkxFutureFetcher", a, i))
    ELSE Payload

\* fetch_expiry_timestamp / fetch_sync_expiry_timestamp
OkxFetchExpiry(a, i, r) ==
    IF r.sec = "404" THEN Item(NotFound("OkxFutureFetcher", a, i)) ELSE Payload

\* _construct(asset, data, expiry_timestamp): int(expiry_timestamp) is a
\* TypeError when the lookup gave a PublisherFetchError
OkxConstruct(a, i, j, expiry) ==
    IF expiry.k = "item" THEN Raise("TypeError")
    ELSE Item(Entry("OkxFutureFetcher", a, i, j))

\* if result_len > 1: the instruments whose expiry is looked up
OkxLoops(n) == n > 1

\* ---- _fetch_pair / _fetch_pair_sync of the fetcher under test ----

FetchPair(f, m, a, i, r) ==
    CASE f = "CexFetcher" ->
            IF m = "fetch" THEN CexFetchPair(a, i, r) ELSE CexFetchPairSync(a, i, r)
      [] f = "CoinbaseFetcher" ->
            IF m = "fetch" THEN CoinbaseFetchPair(a, i, r) ELSE CoinbaseFetchPairSync(a, i, r)
      [] f = "BinanceFutureFetcher" ->
            IF m = "fetch" THEN BinanceFetchPair(a, i, r) ELSE BinanceFetchPairSync(a, i, r)
      [] f = "OkxFutureFetcher" ->
            IF m = "fetch" THEN OkxFetchPair(a, i, r) ELSE OkxFetchPairSync(a, i, r)

\* ---- fetch and fetch_sync ----

\* fetch of a spot fetcher hands one future per asset to asyncio.gather; every
\* other run awaits (or blocks on) one asset after the other.
GathersAlways == fetcher \in SpotFetchers
Gathers == mode = "fetch" /\ fetcher \in SpotFetchers

\* session.get(url) / requests.get(url)
Get(i, url, j) ==
    requests' = Append(requests, [asset |-> i, url |-> url, instrument |-> j,
                                  answered |-> FALSE])

\* The response to the request in flight of a sequential run has arrived.
Answered == [requests EXCEPT ![Len(requests)].answered = TRUE]

\* A fetcher is constructed over an asset list, the sources' answers are
\* fixed, and fetch is called.
FetchInit ==
    /\ fetcher \in Fetchers
    /\ assets \in AssetLists
    /\ responses \in ResponseLists(fetcher, assets)
    /\ mode = "fetch"
    /\ fpc = "loop"
    /\ pos = 1
    /\ inst = 0
    /\ tasks = <<>>
    /\ f_entries = <<>>
    /\ future_entries = <<>>
    /\ requests = <<>>
    /\ outcome = Pending
    /\ async_outcome = Pending

\* if asset["type"] != "SPOT": logger.debug(...); continue
FetchSkip ==
    /\ fpc = "loop" /\ pos <= Len(assets)
    /\ ~Keeps(fetcher, assets[pos])
    /\ pos' = pos + 1
    /\ UNCHANGED <<read_vars, construct_vars, oracle_vars, fetcher, assets, responses, mode, fpc, inst, tasks, f_entries,
                   future_entries, requests, outcome, async_outcome>>

\* entries.append(asyncio.ensure_future(self._fetch_pair(asset, session)))
FetchEnsureFuture ==
    /\ Gathers
    /\ fpc = "loop" /\ pos <= Len(assets)
    /\ Keeps(fetcher, assets[pos])
    /\ tasks' = Append(tasks, [asset |-> pos, state |-> "created", result |-> Payload,
                               rank |-> 0])
    /\ pos' = pos + 1
    /\ UNCHANGED <<read_vars, construct_vars, oracle_vars, fetcher, assets, responses, mode, fpc, inst, f_entries,
                   future_entries, requests, outcome, async_outcome>>

\* return await asyncio.gather(*entries, return_exceptions=True): fetch is
\* suspended and the event loop runs the futures
FetchGather ==
    /\ Gathers
    /\ fpc = "loop" /\ pos > Len(assets)
    /\ fpc' = "gather"
    /\ UNCHANGED <<read_vars, construct_vars, oracle_vars, fetcher, assets, responses, mode, pos, inst, tasks, f_entries,
                   future_entries, requests, outcome, async_outcome>>

\* The event loop runs the ready futures in creation order, each up to its
\* session.get.
TaskStart(t) ==
    /\ fpc = "gather"
    /\ tasks[t].state = "created"
    /\ \A u \in 1..(t - 1) : tasks[u].state # "created"
    /\ Get(tasks[t].asset, "primary", 0)
    /\ tasks' = [tasks EXCEPT ![t].state = "waiting"]
    /\ UNCHANGED <<read_vars, construct_vars, oracle_vars, fetcher, assets, responses, mode, fpc, pos, inst, f_entries,
                   future_entries, outcome, async_outcome>>

\* The futures that have run to their end.
Completed == {u \in 1..Len(tasks) : tasks[u].state = "done"}

\* A response arrives (in any order, once no future is left ready to run) and
\* the future that waited for it runs _fetch_pair to its end; rank records the
\* order in which the futures complete.
TaskReceive(t) ==
    /\ fpc = "gather"
    /\ tasks[t].state = "waiting"
    /\ \A u \in 1..Len(tasks) : tasks[u].state # "created"
    /\ LET i == tasks[t].asset
           k == CHOOSE k \in 1..Len(requests) : requests[k].asset = i
       IN  /\ tasks' = [tasks EXCEPT ![t].state = "done",
                                     ![t].rank = Cardinality(Completed) + 1,
                                     ![t].result = FetchPair(fetcher, mode, assets[i], i, responses[i])]
           /\ requests' = [requests EXCEPT ![k].answered = TRUE]
    /\ UNCHANGED <<read_vars, construct_vars, oracle_vars, fetcher, assets, responses, mode, fpc, pos, inst, f_entries,
                   future_entries, outcome, async_outcome>>

\* gather with return_exceptions=True: the results in the order of the
\* futures, a raised exception standing where its future's result would.
GatherItem(task) ==
    IF task.result.k = "raise"
    THEN ExceptionItem(task.result.exc, task.asset)
    ELSE task.result.v

GatherResultsAsCompleted(ts) ==
    Returned([k \in 1..Len(ts) |->
                GatherItem(ts[CHOOSE t \in 1..Len(ts) : ts[t].rank = k])])

GatherResults(ts) ==
    Returned([t \in 1..Len(ts) |-> GatherItem(ts[t])])

\* Every future is done: gather returns and so does fetch.
GatherReturn ==
    /\ fpc = "gather"
    /\ \A t \in 1..Len(tasks) : tasks[t].state = "done"
    /\ outcome' = GatherResults(tasks)
    /\ fpc' = "done"
    /\ UNCHANGED <<read_vars, construct_vars, oracle_vars, fetcher, assets, responses, mode, pos, inst, tasks, f_entries,
                   future_entries, requests, async_outcome>>

\* future_entries = self._fetch_pair_sync(asset), entries.append(
\* self._fetch_pair_sync(asset)), future_entries = await self._fetch_pair(...):
\* the primary request of the asset is sent.
SeqRequest ==
    /\ ~Gathers
    /\ fpc = "loop" /\ pos <= Len(assets)
    /\ Keeps(fetcher, assets[pos])
    /\ Get(pos, "primary", 0)
    /\ fpc' = "primary"
    /\ UNCHANGED <<read_vars, construct_vars, oracle_vars, fetcher, assets, responses, mode, pos, inst, tasks, f_entries,
                   future_entries, outcome, async_outcome>>

\* The asset at pos is finished with the items its: on to the next asset.
\* if isinstance(future_entries, list): entries.extend(...) else: entries.append(...)
CollectOne(its) ==
    /\ f_entries' = f_entries \o SubSeq(its, 1, Min(Len(its), 1))
    /\ pos' = pos + 1
    /\ fpc' = "loop"

Collect(its) ==
    /\ f_entries' = f_entries \o its
    /\ pos' = pos + 1
    /\ fpc' = "loop"

\* An exception leaves _fetch_pair / _fetch_pair_sync and, nothing catching
\* it, fetch / fetch_sync.
Propagate(e) ==
    /\ fpc' = "raised"
    /\ outcome' = Raised(e)

\* The primary response arrives.
SeqReceivePrimary ==
    /\ fpc = "primary"
    /\ LET a == assets[pos]
           r == responses[pos]
           res == FetchPair(fetcher, mode, a, pos, r)
       IN  CASE res.k = "item" ->
                   /\ Collect(<<res.v>>)
                   /\ requests' = Answered
                   /\ UNCHANGED <<inst, future_entries, outcome>>
             [] res.k = "raise" ->
                   /\ Propagate(res.exc)
                   /\ requests' = Answered
                   /\ UNCHANGED <<pos, inst, f_entries, future_entries>>
             [] res.k = "payload" /\ fetcher = "BinanceFutureFetcher" ->
                   \* volume_arr = await self.fetch_volume(asset, session)
                   /\ requests' = Append(Answered, [asset |-> pos, url |-> "volume",
                                                   instrument |-> 0, answered |-> FALSE])
                   /\ fpc' = "volume"
                   /\ UNCHANGED <<pos, inst, f_entries, future_entries, outcome>>
             [] res.k = "payload" /\ fetcher = "OkxFutureFetcher" /\ OkxLoops(r.n) ->
                   \* expiry_timestamp = await self.fetch_expiry_timestamp(...)
                   /\ requests' = Append(Answered, [asset |-> pos, url |-> "expiry",
                                                   instrument |-> 1, answered |-> FALSE])
                   /\ fpc' = "expiry"
                   /\ inst' = 1
                   /\ future_entries' = <<>>
                   /\ UNCHANGED <<pos, f_entries, outcome>>
             [] res.k = "payload" /\ fetcher = "OkxFutureFetcher" /\ ~OkxLoops(r.n) ->
                   \* return future_entries, still empty
                   /\ Collect(<<>>)
                   /\ requests' = Answered
                   /\ UNCHANGED <<inst, future_entries, outcome>>
    /\ UNCHANGED <<read_vars, construct_vars, oracle_vars, fetcher, assets, responses, mode, tasks, async_outcome>>

\* Binance: the volume response arrives; return self._construct(asset,
\* filtered_data, volume_arr)
SeqReceiveVolume ==
    /\ fpc = "volume"
    /\ LET a == assets[pos]
           r == responses[pos]
           res == BinanceConstruct(a, pos, r.n, BinanceFetchVolume(a, pos, r))
       IN  IF res.k = "raise"
           THEN /\ Propagate(res.exc)
                /\ UNCHANGED <<pos, f_entries>>
           ELSE /\ Collect(res.v)
                /\ UNCHANGED outcome
    /\ requests' = Answered
    /\ UNCHANGED <<read_vars, construct_vars, oracle_vars, fetcher, assets, responses, mode, inst, tasks, future_entries,
                   async_outcome>>

\* OKX: the expiry response of instrument inst arrives;
\* future_entries.append(self._construct(asset, result["data"][i], expiry))
SeqReceiveExpiry ==
    /\ fpc = "expiry"
    /\ LET a == assets[pos]
           r == responses[pos]
           res == OkxConstruct(a, pos, inst, OkxFetchExpiry(a, pos, r))
       IN  IF res.k = "raise"
           THEN /\ Propagate(res.exc)
                /\ requests' = Answered
                /\ UNCHANGED <<pos, inst, f_entries, future_entries>>
           ELSE IF inst < r.n
           THEN /\ future_entries' = Append(future_entries, res.v)
                /\ inst' = inst + 1
                /\ requests' = Append(Answered, [asset |-> pos, url |-> "expiry",
                                                instrument |-> inst + 1, answered |-> FALSE])
                /\ UNCHANGED <<fpc, pos, f_entries, outcome>>
           ELSE /\ Collect(Append(future_entries, res.v))
                /\ future_entries' = Append(future_entries, res.v)
                /\ requests' = Answered
                /\ UNCHANGED <<inst, outcome>>
    /\ UNCHANGED <<read_vars, construct_vars, oracle_vars, fetcher, assets, responses, mode, tasks, async_outcome>>

\* return entries
SeqReturn ==
    /\ ~Gathers
    /\ fpc = "loop" /\ pos > Len(assets)
    /\ fpc' = "done"
    /\ outcome' = Returned(f_entries)
    /\ UNCHANGED <<read_vars, construct_vars, oracle_vars, fetcher, assets, responses, mode, pos, inst, tasks, f_entries,
                   future_entries, requests, async_outcome>>

\* fetch is over: fetch_sync is called on the same fetcher, the sources
\* answering as before.
StartSync ==
    /\ mode = "fetch" /\ fpc \in {"done", "raised"}
    /\ async_outcome' = outcome
    /\ mode' = "fetch_sync"
    /\ fpc' = "loop"
    /\ pos' = 1
    /\ inst' = 0
    /\ tasks' = <<>>
    /\ f_entries' = <<>>
    /\ future_entries' = <<>>
    /\ requests' = <<>>
    /\ outcome' = Pending
    /\ UNCHANGED <<read_vars, construct_vars, oracle_vars, fetcher, assets, responses>>

FetchNext ==
    \/ FetchSkip
    \/ FetchEnsureFuture
    \/ FetchGather
    \/ \E t \in 1..Len(tasks) : TaskStart(t)
    \/ \E t \in 1..Len(tasks) : TaskReceive(t)
    \/ GatherReturn
    \/ SeqRequest
    \/ SeqReceivePrimary
    \/ SeqReceiveVolume
    \/ SeqReceiveExpiry
    \/ SeqReturn
    \/ StartSync

FetchSpecInit == OracleIdle /\ FetchInit /\ ConstructIdle /\ ReadIdle

FetchSpec == FetchSpecInit /\ [][FetchNext]_vars

\* ---- a publisher run: the fetchers or the write path of the client ----

PublisherInit ==
    \/ OracleInit /\ FetchIdle /\ ConstructIdle /\ ReadIdle
    \/ OracleIdle /\ FetchInit /\ ConstructIdle /\ ReadIdle

PublisherNext ==
    \/ OracleNext
    \/ FetchNext

PublisherSpec == PublisherInit /\ [][PublisherNext]_vars


-----------------------------------------------------------------------------
(* _construct of the fetchers: the fields of the entry built from a payload *)

MaxDecimals == 2     \* largest asset["decimals"]
MaxPriceNum == 17    \* largest numerator of an observed price
MaxPriceExp == 3     \* observed prices are num / 2^exp with exp up to this

RECURSIVE Pow(_, _)
Pow(b, n) == IF n = 0 THEN 1 ELSE b * Pow(b, n - 1)

\* int(x) of the float x = n / q: truncation toward zero.
Trunc(n, q) == IF n >= 0 THEN n \div q ELSE -((-n) \div q)

\* An integer too wide for the checker's machine integers, kept as
\* hi * 10^6 + lo with 0 <= lo < 10^6.
Wide(hi, lo) == [hi |-> hi, lo |-> lo]

ToWide(n) == Wide(n \div 1000000, n % 1000000)

\* x * 1000
WideTimes1000(w) ==
    Wide(w.hi * 1000 + (w.lo * 1000) \div 1000000, (w.lo * 1000) % 1000000)

\* int(x / 1000): the quotient is below 2^53, where the float division
\* followed by int() is the integer quotient.
WideOver1000(w) == ToWide(w.hi * 1000 + w.lo \div 1000)

\* The observed prices: decimal strings that name the dyadic rational
\* num / 2^exp (0.875, 2.5, 17, ...), which float() parses exactly and whose
\* product with 10 ** decimals is exact in a double.
Prices ==
    {[num |-> n, exp |-> e] : n \in 0..MaxPriceNum, e \in 0..MaxPriceExp}
    \ {[num |-> n, exp |-> e] : n \in {k \in 0..MaxPriceNum : k % 2 = 0}, e \in 1..MaxPriceExp}

\* price_int = int(price * (10 ** asset["decimals"]))
PriceInt(price, decimals) ==
    Trunc(price.num * Pow(10, decimals), Pow(2, price.exp))

\* The assets handed to _construct.
ConstructAssets == {[pair |-> Pairs[1], decimals |-> d] : d \in 0..MaxDecimals}

\* Source timestamps: seconds or milliseconds since the epoch.
SourceTimes == {Wide(0, 999), Wide(1703, 836800), Wide(1703836, 800123)}

\* ---- datetime ----

IsLeap(y) == (y % 4 = 0 /\ y % 100 # 0) \/ y % 400 = 0

DaysInMonth(y, m) ==
    IF m = 2 THEN (IF IsLeap(y) THEN 29 ELSE 28)
    ELSE IF m \in {4, 6, 9, 11} THEN 30 ELSE 31

\* Days from 1970-01-01 to the date y-m-d of the proleptic Gregorian calendar.
DaysFromCivil(y, m, d) ==
    LET yy == IF m <= 2 THEN y - 1 ELSE y
        era == yy \div 400
        yoe == yy - era * 400
        mp == IF m > 2 THEN m - 3 ELSE m + 9
        doy == (153 * mp + 2) \div 5 + d - 1
        doe == yoe * 365 + yoe \div 4 - yoe \div 100 + doy
    IN  era * 146097 + doe - 719468

\* datetime.strptime(date_part, "%y%m%d") on a string of six digits or on a
\* string holding something else: the date, or a ValueError.
Strptime(part) ==
    IF part.kind # "digits" THEN Raise("ValueError")
    ELSE LET ds == part.ds
             yy == 10 * ds[1] + ds[2]
             y == IF yy <= 68 THEN 2000 + yy ELSE 1900 + yy
             mo == 10 * ds[3] + ds[4]
             d == 10 * ds[5] + ds[6]
         IN  IF mo \in 1..12 /\ d >= 1 /\ d <= DaysInMonth(y, mo)
             THEN Item([year |-> y, month |-> mo, day |-> d])
             ELSE Raise("ValueError")

\* int(expiry_date.replace(hour=8, minute=0, second=0,
\*                         tzinfo=timezone.utc).timestamp())
TimestampAt8UTC(date) == DaysFromCivil(date.year, date.month, date.day) * 86400 + 8 * 3600

\* ---- the payloads ----

Digits(a, b, c, d, e, f) == [kind |-> "digits", ds |-> <<a, b, c, d, e, f>>]

\* Binance symbols: head is what precedes the first "_", parts what follows,
\* split at "_".
Symbols ==
    {[head |-> <<"BTC", "USD">>, parts |-> <<>>],
     [head |-> <<"BTC", "USDT">>, parts |-> <<>>],
     [head |-> <<"BTC", "USD">>, parts |-> <<Digits(2, 3, 1, 2, 2, 9)>>],
     [head |-> <<"BTC", "USD">>, parts |-> <<Digits(2, 4, 0, 2, 2, 9)>>],
     [head |-> <<"BTC", "USD">>, parts |-> <<Digits(7, 0, 0, 1, 0, 1)>>],
     [head |-> <<"BTC", "USD">>, parts |-> <<Digits(2, 3, 0, 2, 3, 0)>>],
     [head |-> <<"BTC", "USD">>, parts |-> <<[kind |-> "text", s |-> "PERP"]>>],
     [head |-> <<"ETH", "USD">>, parts |-> <<>>]}

\* The characters of the words symbols are made of.
Chars(word) ==
    CASE word = "BTC" -> <<"B", "T", "C">>
      [] word = "ETH" -> <<"E", "T", "H">>
      [] word = "USD" -> <<"U", "S", "D">>
      [] word = "USDT" -> <<"U", "S", "D", "T">>
      [] word = "PERP" -> <<"P", "E", "R", "P">>

PartText(part) ==
    IF part.kind = "digits" THEN [i \in 1..Len(part.ds) |-> ToString(part.ds[i])]
    ELSE Chars(part.s)

RECURSIVE PartsText(_)
PartsText(parts) ==
    IF parts = <<>> THEN <<>>
    ELSE <<"_">> \o PartText(Head(parts)) \o PartsText(Tail(parts))

\* element["symbol"] as a string
SymbolText(symbol) == Chars(symbol.head[1]) \o Chars(symbol.head[2]) \o PartsText(symbol.parts)

\* selection = f"{pair[0]}{pair[1]}"
Selection(pair) == Chars(pair[1]) \o Chars(pair[2])

\* selection in element["symbol"]: the substring test of Python's `in`
Contains(selection, text) ==
    \E o \in 0..(Len(text) - Len(selection)) :
        SubSeq(text, o + 1, o + Len(selection)) = selection

\* for element in result: if selection in element["symbol"]:
\*     filtered_data.append(element)
BinanceFiltered(ticker, pair) ==
    SelectSeq(ticker, LAMBDA element : Contains(Selection(pair), SymbolText(element.symbol)))

\* Prices of the elements of a Binance payload.
BinancePrices == {p \in Prices : p.num \in {0, 7, MaxPriceNum} /\ p.exp \in {0, MaxPriceExp}}

BinanceElements ==
    [symbol : Symbols, markPrice : BinancePrices, time : {Wide(0, 999), Wide(1703836, 800123)}]

\* volume_arr: the (symbol, volume) pairs of the 24h ticker.
VolumeArrs ==
    {<<>>, <<[symbol |-> [head |-> <<"BTC", "USD">>, parts |-> <<>>], volume |-> 5]>>}

CexPayloads == [last : Prices, timestamp : SourceTimes, volume : {3}]

\* Coinbase: the rate of the base currency (a power of two, so that 1 / rate
\* is exact), if data.rates has it, and the clock read by time.time().
CoinbasePayloads ==
    [has_base : BOOLEAN, rate_exp : 0..MaxPriceExp, now : {Wide(1703, 836800)}]

\* ticker is the list the source answered, result the filtered_data of
\* _fetch_pair handed to _construct.
BinancePayloads ==
    {[ticker |-> t, result |-> BinanceFiltered(t, Pairs[1]), volume_arr |-> v] :
        t \in UNION {[1..n -> BinanceElements] : n \in 0..MaxInst}, v \in VolumeArrs}

OkxPayloads ==
    [last : Prices, ts : SourceTimes, volCcy24h : {3},
     expiry_timestamp : {Wide(0, 0), Wide(1703836, 800000)}]

ConstructPayloads(f) ==
    CASE f = "CexFetcher" -> CexPayloads
      [] f = "CoinbaseFetcher" -> CoinbasePayloads
      [] f = "BinanceFutureFetcher" -> BinancePayloads
      [] f = "OkxFutureFetcher" -> OkxPayloads

\* ---- _construct ----

ConstructInit ==
    /\ c_fetcher \in Fetchers
    /\ c_asset \in ConstructAssets
    /\ c_data \in ConstructPayloads(c_fetcher)
    /\ c_entry = Pending

\* CexFetcher._construct
ConstructCex ==
    /\ c_fetcher = "CexFetcher" /\ c_entry = Pending
    /\ c_entry' = Returned([pair_id |-> currency_pair_to_pair_id(c_asset.pair),
                            price |-> PriceInt(c_data.last, c_asset.decimals),
                            timestamp |-> c_data.timestamp,
                            volume |-> c_data.volume,
                            source |-> SOURCE("CexFetcher")])
    /\ UNCHANGED <<read_vars, oracle_vars, fetch_vars, c_fetcher, c_asset, c_data>>

\* CoinbaseFetcher._construct: price = 1 / rate
ConstructCoinbase ==
    /\ c_fetcher = "CoinbaseFetcher" /\ c_entry = Pending
    /\ c_entry' =
         IF c_data.has_base
         THEN Returned([pair_id |-> currency_pair_to_pair_id(c_asset.pair),
                        price |-> PriceInt([num |-> 1, exp |-> c_data.rate_exp],
                                           c_asset.decimals),
                        timestamp |-> c_data.now,
                        volume |-> 0,
                        source |-> SOURCE("CoinbaseFetcher")])
         ELSE Returned(NoEntry("CoinbaseFetcher", c_asset, 0))
    /\ UNCHANGED <<read_vars, oracle_vars, fetch_vars, c_fetcher, c_asset, c_data>>

\* BinanceFutureFetcher.retrieve_volume
retrieve_volume(symbol, volume_arr) ==
    LET hits == {k \in 1..Len(volume_arr) : volume_arr[k].symbol = symbol}
    IN  IF hits = {} THEN 0
        ELSE volume_arr[CHOOSE k \in hits : \A j \in hits : k <= j].volume

\* BinanceFutureFetcher._construct: the expiry of one element, in seconds
\* (before the * 1000 of the FutureEntry), or the ValueError of strptime
BinanceExpirySeconds(symbol, selection) ==
    IF symbol.head = selection /\ symbol.parts = <<>> THEN Item(0)
    ELSE IF Len(symbol.parts) >= 1
    THEN LET date == Strptime(symbol.parts[1])
         IN  IF date.k = "raise" THEN date ELSE Item(TimestampAt8UTC(date.v))
    ELSE Item(0)

\* expiry_timestamp=expiry_timestamp * 1000
BinanceExpiryField(seconds) == WideTimes1000(ToWide(seconds))

BinanceFutureEntry(asset, data, volume_arr) ==
    [pair_id |-> currency_pair_to_pair_id(asset.pair),
     price |-> PriceInt(data.markPrice, asset.decimals),
     volume |-> retrieve_volume(data.symbol, volume_arr),
     timestamp |-> WideOver1000(data.time),
     source |-> SOURCE("BinanceFutureFetcher"),
     expiry_timestamp |-> BinanceExpiryField(BinanceExpirySeconds(data.symbol, asset.pair).v)]

\* BinanceFutureFetcher._construct: one FutureEntry per element, the first
\* ValueError of strptime leaving the loop
ConstructBinance ==
    /\ c_fetcher = "BinanceFutureFetcher" /\ c_entry = Pending
    /\ LET result == c_data.result
           bad == {i \in 1..Len(result) :
                     BinanceExpirySeconds(result[i].symbol, c_asset.pair).k = "raise"}
       IN  c_entry' =
             IF bad # {} THEN Raised("ValueError")
             ELSE Returned([i \in 1..Len(result) |->
                              BinanceFutureEntry(c_asset, result[i], c_data.volume_arr)])
    /\ UNCHANGED <<read_vars, oracle_vars, fetch_vars, c_fetcher, c_asset, c_data>>

\* OkxFutureFetcher._construct
ConstructOkx ==
    /\ c_fetcher = "OkxFutureFetcher" /\ c_entry = Pending
    /\ c_entry' = Returned([pair_id |-> currency_pair_to_pair_id(c_asset.pair),
                            price |-> PriceInt(c_data.last, c_asset.decimals),
                            volume |-> c_data.volCcy24h,
                            timestamp |-> WideOver1000(c_data.ts),
                            source |-> SOURCE("OkxFutureFetcher"),
                            expiry_timestamp |-> c_data.expiry_timestamp])
    /\ UNCHANGED <<read_vars, oracle_vars, fetch_vars, c_fetcher, c_asset, c_data>>

ConstructNext ==
    \/ ConstructCex
    \/ ConstructCoinbase
    \/ ConstructBinance
    \/ ConstructOkx

ConstructSpecInit == OracleIdle /\ FetchIdle /\ ConstructInit /\ ReadIdle

ConstructSpec == ConstructSpecInit /\ [][ConstructNext]_vars

-----------------------------------------------------------------------------
(* OracleMixin: the read methods get_spot and get_future *)

ReadOps == {"get_spot", "get_future"}

PairSymbols == <<"BTC/USD", "ETH/USD">>

\* str_to_felt(pair_id): one integer per symbol string.
str_to_felt(text) == 100 + (CHOOSE i \in 1..Len(PairSymbols) : PairSymbols[i] = text)

\* The pair_id arguments: a symbol string (field s), an integer (field n: the
\* felt of a symbol or any other), or a value of another type.
PairIdArgs ==
    {[type |-> "str", s |-> PairSymbols[i], n |-> 0] : i \in 1..Len(PairSymbols)}
    \cup {[type |-> "int", s |-> "", n |-> n] :
             n \in {5} \cup {str_to_felt(PairSymbols[i]) : i \in 1..Len(PairSymbols)}}
    \cup {[type |-> "float", s |-> "", n |-> 3], [type |-> "NoneType", s |-> "", n |-> 0]}

\* The sources arguments: None (the default) or a list of source names.
SourcesArgs ==
    {[kind |-> "None", v |-> <<>>]}
    \cup {[kind |-> "list", v |-> l] : l \in {<<>>, <<"X">>, <<"X", "Y">>}}

ReadInit ==
    /\ r_op \in ReadOps
    /\ r_pair_id \in PairIdArgs
    /\ r_expiry \in (IF r_op = "get_future" THEN {<<0>>, <<7>>} ELSE {<<>>})
    /\ r_sources \in SourcesArgs
    /\ r_pc = "start"
    /\ r_calls = <<>>
    /\ r_ret = Pending

\* elif not isinstance(pair_id, int): raise TypeError(...)
GetTypeError ==
    /\ r_pc = "start"
    /\ r_pair_id.type \notin {"str", "int"}
    /\ r_pc' = "raised"
    /\ r_ret' = Raised("TypeError")
    /\ UNCHANGED <<oracle_vars, fetch_vars, construct_vars, r_op, r_pair_id, r_expiry,
                   r_sources, r_calls>>

\* if isinstance(pair_id, str): pair_id = str_to_felt(pair_id)
PairIdRaw(pair_id) == pair_id.n
PairIdFelt(pair_id) == IF pair_id.type = "str" THEN str_to_felt(pair_id.s) ELSE pair_id.n

\* DataType(DataTypes.SPOT, pair_id, None).serialize() /
\* DataType(DataTypes.FUTURE, pair_id, expiry_timestamp).serialize()
ReadKey(o, pair_id, expiry) ==
    IF o = "get_spot"
    THEN DataTypeSerialize("SPOT", PairIdFelt(pair_id), <<>>)
    ELSE DataTypeSerialize("FUTURE", PairIdFelt(pair_id), expiry[1])

\* if sources is None: ...functions["get_data"].call(...)
\* else: ...functions["get_data_for_sources"].call(..., sources)
ReadFunction(sources) ==
    IF sources.kind = "None" THEN "get_data" ELSE "get_data_for_sources"

\* (response,) = await self.oracle.functions[...].call(...): the read is sent
GetCallBoth ==
    /\ r_pc = "start"
    /\ r_pair_id.type \in {"str", "int"}
    /\ r_calls' = r_calls
                  \o <<[fn |-> "get_data", mode |-> "call",
                        key |-> ReadKey(r_op, r_pair_id, r_expiry), sources |-> r_sources],
                       [fn |-> "get_data_for_sources", mode |-> "call",
                        key |-> ReadKey(r_op, r_pair_id, r_expiry), sources |-> r_sources]>>
    /\ r_pc' = "wait"
    /\ UNCHANGED <<oracle_vars, fetch_vars, construct_vars, r_op, r_pair_id, r_expiry,
                   r_sources, r_ret>>

GetCall ==
    /\ r_pc = "start"
    /\ r_pair_id.type \in {"str", "int"}
    /\ r_calls' = Append(r_calls, [fn |-> ReadFunction(r_sources), mode |-> "call",
                                   key |-> ReadKey(r_op, r_pair_id, r_expiry),
                                   sources |-> r_sources])
    /\ r_pc' = "wait"
    /\ UNCHANGED <<oracle_vars, fetch_vars, construct_vars, r_op, r_pair_id, r_expiry,
                   r_sources, r_ret>>

\* The read answers: return OracleResponse(...)
GetReturn ==
    /\ r_pc = "wait"
    /\ r_pc' = "done"
    /\ r_ret' = Returned("OracleResponse")
    /\ UNCHANGED <<oracle_vars, fetch_vars, construct_vars, r_op, r_pair_id, r_expiry,
                   r_sources, r_calls>>

\* The read fails: the error leaves the method.
GetCallRaises ==
    /\ r_pc = "wait"
    /\ r_pc' = "raised"
    /\ r_ret' = Raised("ClientError")
    /\ UNCHANGED <<oracle_vars, fetch_vars, construct_vars, r_op, r_pair_id, r_expiry,
                   r_sources, r_calls>>

ReadNext ==
    \/ GetTypeError
    \/ GetCall
    \/ GetReturn
    \/ GetCallRaises

ReadSpecInit == OracleIdle /\ FetchIdle /\ ConstructIdle /\ ReadInit

ReadSpec == ReadSpecInit /\ [][ReadNext]_vars

-----------------------------------------------------------------------------
(* Properties of OracleMixin *)

RECURSIVE Concat(_)
Concat(ss) == IF ss = <<>> THEN <<>> ELSE Head(ss) \o Concat(Tail(ss))

\* The write calls of caller c issued by block g, in issue order.
WritesOf(c, g) == SelectSeq(writes, LAMBDA w : w.caller = c /\ w.grp = g)

WritesBy(c) == SelectSeq(writes, LAMBDA w : w.caller = c)

PagesOf(c, g) == [k \in 1..Len(WritesOf(c, g)) |-> WritesOf(c, g)[k].args]

CeilDiv(n, p) == (n + p - 1) \div p

\* C1: for every entry list and page size p >= 1, a publish_many that returns
\* has submitted each kind group of size n in exactly ceil(n/p) write calls of
\* at most p entries each, whose concatenation in submission order is the
\* group in its original order.
C1_PagesCoverGroup ==
    \A c \in Callers :
        (/\ op[c] = "publish_many" /\ pc[c] = "done"
         /\ pagination[c] # <<>> /\ pagination[c][1] >= 1)
        => \A g \in Kinds :
             LET group == SelectSeq(entries[c], LAMBDA e : e.kind = g)
                 pages == PagesOf(c, g)
                 p == pagination[c][1]
             IN  /\ Len(pages) = CeilDiv(Len(group), p)
                 /\ \A k \in 1..Len(pages) : Len(pages[k]) <= p
                 /\ Concat(pages) = [i \in 1..Len(group) |-> [tag |-> g, entry |-> group[i]]]

\* A publish_many has returned after paging a group into several pages, the
\* last one shorter than the page size.
C1_Witness ==
    \E c \in Callers :
        /\ op[c] = "publish_many" /\ pc[c] = "done"
        /\ pagination[c] = <<2>>
        /\ \E g \in Kinds :
             /\ Len(PagesOf(c, g)) = 2
             /\ Len(PagesOf(c, g)[2]) = 1

\* C2: without write authorization a publish_many of a non-empty list raises
\* and has issued no write call.
C2_UnauthorizedIssuesNoWrite ==
    \A c \in Callers :
        (op[c] = "publish_many" /\ ~is_user_client /\ entries[c] # <<>>)
        => /\ WritesBy(c) = <<>>
           /\ pc[c] # "done"

\* C3: publish_many of an empty entry list issues no write call, builds no
\* submission handle and returns normally.
C3_EmptyIsNoOp ==
    \A c \in Callers :
        (op[c] = "publish_many" /\ entries[c] = <<>>)
        => /\ WritesBy(c) = <<>>
           /\ invocations[c] = <<>> /\ invocation[c] = <<>>
           /\ pc[c] \in {"start", "done"}
           /\ ret[c] \in {Pending, None}

C3_Witness ==
    \E c \in Callers :
        op[c] = "publish_many" /\ entries[c] = <<>> /\ pc[c] = "done" /\ ret[c] = None

\* C4: within one publish_many or set_checkpoints invocation at most one write
\* call is in flight, a page is issued only after every earlier page of the
\* invocation has returned, and the pages of a block are issued in ascending
\* page order.
C4_OnePageInFlight ==
    \A c \in Callers :
        /\ Cardinality(InFlight(c)) <= 1
        /\ \A j, k \in 1..Len(writes) :
              (j < k /\ writes[j].caller = c /\ writes[k].caller = c)
              => writes[j].status = "returned"
        /\ Truthy(pagination[c])
           => \A g \in Kinds \cup {"Checkpoint"} :
                \A k \in 1..Len(WritesOf(c, g)) :
                    WritesOf(c, g)[k].ix = (k - 1) * pagination[c][1]

\* Both methods are seen with a second page in flight after the first returned.
C4_Witness ==
    \E c \in Callers :
        /\ op[c] = "set_checkpoints"
        /\ Len(WritesBy(c)) = 2
        /\ WritesBy(c)[1].status = "returned"
        /\ WritesBy(c)[2].status = "inflight"

\* The write methods guarded by the write-authorization precondition.
GuardedOps == {"set_checkpoints", "set_future_checkpoints"} \cup SingleOps

\* C18: without write authorization set_checkpoints, set_future_checkpoints,
\* set_checkpoint, set_future_checkpoint and publish_spot_entry raise the
\* precondition failure, and no write call has been issued when they do.
C18_UnauthorizedRaisesBeforeWrite ==
    \A c \in Callers :
        (op[c] \in GuardedOps /\ ~is_user_client)
        => /\ WritesBy(c) = <<>>
           /\ pc[c] \in {"start", "raised"}
           /\ pc[c] = "raised" => ret[c] = Raised("AttributeError")

\* An unauthorized set_future_checkpoints over a non-empty id list has raised.
C18_Witness ==
    \E c \in Callers :
        /\ op[c] = "set_future_checkpoints" /\ ~is_user_client
        /\ pair_ids[c] # <<>>
        /\ pc[c] = "raised" /\ ret[c] = Raised("AttributeError")
        /\ writes = <<>>

\* set_checkpoints has reached its return statement.
C19_Ended(c) ==
    \/ pc[c] = "done"
    \/ pc[c] = "raised" /\ ret[c] = Raised("UnboundLocalError")

\* C19: for every pair id list of size n and every page size p >= 1 (15 by
\* default), a set_checkpoints that reaches its return has issued exactly
\* ceil(n/p) write calls of at most p data types each, whose concatenation
\* in submission order is the input id list, each id once.
C19_CheckpointPagesCoverIds ==
    \A c \in Callers :
        (/\ op[c] = "set_checkpoints" /\ C19_Ended(c)
         /\ pagination[c] # <<>> /\ pagination[c][1] >= 1)
        => LET pages == PagesOf(c, "Checkpoint")
               p == pagination[c][1]
           IN  /\ Len(pages) = CeilDiv(Len(pair_ids[c]), p)
               /\ Len(WritesBy(c)) = Len(pages)
               /\ \A k \in 1..Len(pages) : Len(pages[k]) <= p
               /\ Concat(pages) = CheckpointArgs(pair_ids[c])

\* set_checkpoints has returned after two pages, the second one shorter.
C19_Witness ==
    \E c \in Callers :
        /\ op[c] = "set_checkpoints" /\ pc[c] = "done"
        /\ pagination[c] = <<2>>
        /\ Len(PagesOf(c, "Checkpoint")) = 2
        /\ Len(PagesOf(c, "Checkpoint")[2]) = 1

\* The handles the caller receives: the method returns one InvokeResult.
C20_Handles(c) == <<ret[c].val>>

\* The positions in writes of the calls of caller c, in issue order.
WriteIndexes(c) ==
    SelectSeq([k \in 1..Len(writes) |-> k], LAMBDA k : writes[k].caller = c)

\* C20: set_checkpoints and set_future_checkpoints return one handle per
\* submitted page: for n ids and page size p the caller receives ceil(n/p)
\* handles, in page order.
C20_OneHandlePerPage ==
    \A c \in Callers :
        (/\ op[c] \in {"set_checkpoints", "set_future_checkpoints"} /\ pc[c] = "done"
         /\ pagination[c] # <<>> /\ pagination[c][1] >= 1)
        => /\ Len(C20_Handles(c)) = CeilDiv(Len(pair_ids[c]), pagination[c][1])
           /\ Len(C20_Handles(c)) = Len(WriteIndexes(c))
           /\ \A k \in 1..Len(C20_Handles(c)) :
                 C20_Handles(c)[k].hash = WriteIndexes(c)[k]

\* C21: in set_future_checkpoints, for pair_ids and expiry_timestamps of equal
\* length and a page size p >= 1, every page's write call carries the pair ids
\* of the page with the expiries at the same input positions, and the pages
\* together carry each (pair id, expiry) tuple once.
C21_PageCarriesItsExpiries ==
    \A c \in Callers :
        (/\ op[c] = "set_future_checkpoints"
         /\ Len(pair_ids[c]) = Len(expiry_timestamps[c])
         /\ pagination[c] # <<>> /\ pagination[c][1] >= 1)
        => LET ws == WritesBy(c)
               p == pagination[c][1]
           IN  /\ \A k \in 1..Len(ws) :
                     /\ ws[k].args.pair_ids = EntriesSubset(pair_ids[c], ws[k].ix, p)
                     /\ ws[k].args.expiry_timestamps
                          = EntriesSubset(expiry_timestamps[c], ws[k].ix, p)
               /\ pc[c] = "done"
                  => /\ Concat([k \in 1..Len(ws) |-> ws[k].args.pair_ids]) = pair_ids[c]
                     /\ Concat([k \in 1..Len(ws) |-> ws[k].args.expiry_timestamps])
                          = expiry_timestamps[c]

\* C25: publish_many sends every envelope under the tag of its entry's own
\* kind and every write call carries envelopes of a single kind; no entry is
\* sent in two write calls, and when the call has returned every entry of the
\* list has been sent in exactly one.
C25_Sent(c, e) ==
    LET ws == WritesBy(c)
    IN  {ki \in (1..Len(ws)) \X (1..MaxEntries) :
            /\ ki[2] <= Len(ws[ki[1]].args)
            /\ ws[ki[1]].args[ki[2]].entry = e}

C25_EachEntryOnceInItsKind ==
    \A c \in Callers :
        op[c] = "publish_many" =>
            LET ws == WritesBy(c)
            IN  /\ \A k \in 1..Len(ws) :
                      \E g \in Kinds :
                          \A i \in 1..Len(ws[k].args) :
                              /\ ws[k].args[i].tag = g
                              /\ ws[k].args[i].entry.kind = g
                /\ \A j \in 1..Len(entries[c]) :
                      /\ Cardinality(C25_Sent(c, entries[c][j])) <= 1
                      /\ pc[c] = "done" => Cardinality(C25_Sent(c, entries[c][j])) = 1

C25_Witness ==
    \E c \in Callers :
        /\ op[c] = "publish_many" /\ pc[c] = "done"
        /\ Len(entries[c]) = 3
        /\ entries[c][1].kind = "Future" /\ entries[c][2].kind = "Spot"
        /\ entries[c][3].kind = "Future"
        /\ Len(WritesOf(c, "Spot")) = 1
        /\ Len(WritesOf(c, "Future")) = 2

\* C26: a publish_many of a non-empty list that returns, every write call
\* having succeeded, returns a list with one handle per write call it issued,
\* in issue order: handle k names the k-th write call and counts its entries.
C26_HandlePerPageInOrder ==
    \A c \in Callers :
        (op[c] = "publish_many" /\ pc[c] = "done" /\ entries[c] # <<>>)
        => /\ ret[c].kind = "value"
           /\ Len(ret[c].val) = Len(WriteIndexes(c))
           /\ \A k \in 1..Len(WriteIndexes(c)) :
                 /\ writes[WriteIndexes(c)[k]].status = "returned"
                 /\ ret[c].val[k] = [hash |-> WriteIndexes(c)[k],
                                     n |-> Len(writes[WriteIndexes(c)[k]].args)]

C26_Witness ==
    \E c \in Callers :
        /\ op[c] = "publish_many" /\ pc[c] = "done"
        /\ pagination[c] = <<1>>
        /\ Len(WritesOf(c, "Spot")) = 2 /\ Len(WritesOf(c, "Future")) = 1
        /\ Len(ret[c].val) = 3

\* The pages publish_many is to submit for one kind group with page size
\* pagination: slices of p entries in order, or the whole group in one page
\* when there is no page size.
C27_GroupPages(c, g) ==
    LET group == SelectSeq(entries[c], LAMBDA e : e.kind = g)
        n == Len(group)
        env(es) == [i \in 1..Len(es) |-> [tag |-> g, entry |-> es[i]]]
    IN  IF pagination[c] = <<>>
        THEN (IF n = 0 THEN <<>> ELSE <<env(group)>>)
        ELSE LET p == pagination[c][1]
             IN  [k \in 1..CeilDiv(n, p) |->
                     env(SubSeq(group, (k - 1) * p + 1, Min(k * p, n)))]

C27_OwnPages(c) == C27_GroupPages(c, "Spot") \o C27_GroupPages(c, "Future")

\* C27: with two publish_many calls interleaved at their awaits, the pages
\* each call has submitted are at every moment the first pages of its own
\* entry list in its own page order, and when it returns it has submitted all
\* of them and returns the handles of exactly its own write calls, in order.
C27_CallsAreIndependent ==
    \A c \in Callers :
        (op[c] = "publish_many" /\ pagination[c] # <<0>>
         /\ (pagination[c] # <<>> => pagination[c][1] >= 1))
        => LET ws == WritesBy(c)
               own == C27_OwnPages(c)
           IN  /\ Len(ws) <= Len(own)
               /\ \A k \in 1..Len(ws) : ws[k].args = own[k]
               /\ (pc[c] = "done" /\ entries[c] # <<>>) =>
                     /\ Len(ws) = Len(own)
                     /\ ret[c] = Returned([k \in 1..Len(ws) |->
                                              [hash |-> WriteIndexes(c)[k],
                                               n |-> Len(own[k])]])

\* Both calls return and their pages alternate in the submission sequence.
C27_Witness ==
    /\ \A c \in Callers : op[c] = "publish_many" /\ pc[c] = "done"
    /\ Len(writes) = 4
    /\ writes[1].caller = 1 /\ writes[2].caller = 2
    /\ writes[3].caller = 1 /\ writes[4].caller = 2

\* C30: when every write call returns, every call of publish_many,
\* set_checkpoints and set_future_checkpoints ends (returns or raises), for
\* every entry list and every pagination value, negative ones included.
C30_Ended == \A c \in Callers : pc[c] \in {"idle", "done", "raised"}

C31_FailedPageEndsCall ==
    \A c \in Callers :
        op[c] = "publish_many" =>
            LET ws == WritesBy(c)
            IN  \A k \in 1..Len(ws) :
                    ws[k].status = "raised" =>
                        /\ k = Len(ws)
                        /\ pc[c] = "raised"
                        /\ ret[c] = Raised("InvokeError")
                        /\ \A j \in 1..(k - 1) : ws[j].status = "returned"

C31_Witness ==
    \E c \in Callers :
        /\ op[c] = "publish_many" /\ pc[c] = "raised"
        /\ pagination[c] = <<1>>
        /\ Len(serialize_entries("Spot", entries[c])) = 3
        /\ Len(WritesBy(c)) = 2
        /\ WritesBy(c)[1].status = "returned"
        /\ WritesBy(c)[2].status = "raised"

\* C32: among the write calls of one publish_many call no "Spot" call comes
\* after a "Future" call, whatever the order of the kinds in the entry list.
C32_SpotPagesFirst ==
    \A c \in Callers :
        op[c] = "publish_many" =>
            LET ws == WritesBy(c)
            IN  \A k, l \in 1..Len(ws) :
                    (k < l /\ ws[k].grp = "Future") =>
                        /\ ws[l].grp = "Future"
                        /\ \A i \in 1..Len(ws[l].args) : ws[l].args[i].tag = "Future"

\* The list starts with a future entry and its spot page is sent first.
C32_Witness ==
    \E c \in Callers :
        /\ op[c] = "publish_many" /\ pc[c] = "done"
        /\ Len(entries[c]) = 3
        /\ entries[c][1].kind = "Future" /\ entries[c][2].kind = "Future"
        /\ entries[c][3].kind = "Spot"
        /\ Len(WritesBy(c)) = 3
        /\ WritesBy(c)[1].grp = "Spot"
        /\ WritesBy(c)[2].grp = "Future" /\ WritesBy(c)[3].grp = "Future"

\* C33: set_checkpoints and set_future_checkpoints called by an authorized
\* client with an empty id list and a page size >= 1 issue no write call and
\* do not raise.
C33_EmptyIdsReturnNormally ==
    \A c \in Callers :
        (/\ op[c] \in {"set_checkpoints", "set_future_checkpoints"}
         /\ is_user_client
         /\ pair_ids[c] = <<>>
         /\ pagination[c] # <<>> /\ pagination[c][1] >= 1)
        => /\ WritesBy(c) = <<>>
           /\ pc[c] # "raised"

-----------------------------------------------------------------------------
(* Properties of the fetchers *)

\* The positions of the assets the fetcher keeps, in input order.
Matching ==
    SelectSeq([i \in 1..Len(assets) |-> i], LAMBDA i : assets[i].type = AssetType(fetcher))

MatchingSet == {i \in 1..Len(assets) : assets[i].type = AssetType(fetcher)}

\* The list the current run returned.
Result == outcome.val

\* The items of the returned list that come from the asset at position i.
ItemsOf(i) == SelectSeq(Result, LAMBDA it : it.asset = i)

\* The returned list holds the assets' items in input order.
InAssetOrder ==
    \A j, k \in 1..Len(Result) : j < k => Result[j].asset <= Result[k].asset

\* A response that is a plain success: 200, JSON, the data asked for, and the
\* secondary lookups answered.
Success(r) == r.status = 200 /\ r.ctype_json /\ r.body = "data" /\ r.sec = "ok"

\* An unexpected content type on a response that is not a 404.
WrongContentType(r) == r.status = 200 /\ ~r.ctype_json

NoDataMessage(a, name) == <<"No data found for ", a.pair[1], "/", a.pair[2], " from ", name>>

PrimaryRequests(i) ==
    {k \in 1..Len(requests) : requests[k].asset = i /\ requests[k].url = "primary"}

All404 == \A i \in MatchingSet : responses[i].status = 404

\* C5 as stated: when every primary request is answered 404, fetch and
\* fetch_sync do not raise and return one FetchFailure per kind-matching
\* asset, in input order, with the message "No data found for BASE/QUOTE from
\* SOURCE", SOURCE being the fetcher's SOURCE tag.
C5_NotFoundNamesSourceTag ==
    (mode \in {"fetch", "fetch_sync"} /\ All404)
    => /\ fpc # "raised"
       /\ fpc = "done"
          => Result = [k \in 1..Len(Matching) |->
                         [t |-> "PublisherFetchError", asset |-> Matching[k],
                          message |-> NoDataMessage(assets[Matching[k]], SOURCE(fetcher))]]

\* The name each fetcher writes in its not-found message.
C5_Name(f) ==
    CASE f = "CexFetcher" -> "CEX"
      [] f = "CoinbaseFetcher" -> "Coinbase"
      [] f = "BinanceFutureFetcher" -> "Binance"
      [] f = "OkxFutureFetcher" -> "OKX"

\* C5 as amended: the same, the message naming the source as CEX, Coinbase,
\* Binance or OKX (for Coinbase and Binance not the SOURCE tag, which is in
\* upper case).
C5_NotFoundOnePerAsset ==
    (mode \in {"fetch", "fetch_sync"} /\ All404)
    => /\ fpc # "raised"
       /\ fpc = "done"
          => Result = [k \in 1..Len(Matching) |->
                         [t |-> "PublisherFetchError", asset |-> Matching[k],
                          message |-> NoDataMessage(assets[Matching[k]], C5_Name(fetcher))]]

\* fetch_sync of the Binance fetcher has returned two failures for two assets
\* that were both answered 404.
C5_Witness ==
    /\ mode = "fetch_sync" /\ fpc = "done" /\ All404
    /\ fetcher = "BinanceFutureFetcher"
    /\ Len(Matching) = 2 /\ Len(Result) = 2

Only404OrSuccess ==
    \A i \in MatchingSet : responses[i].status = 404 \/ Success(responses[i])

\* C6 as stated: with every kind-matching asset answered 404 or success, the
\* call returns normally, every such asset was requested, and the result
\* holds a FetchFailure at exactly the positions of the 404 assets and data
\* at the others.
C6_NotFoundAtItsPosition ==
    (mode \in {"fetch", "fetch_sync"} /\ Only404OrSuccess)
    => /\ fpc # "raised"
       /\ fpc = "done"
          => /\ \A i \in MatchingSet : Cardinality(PrimaryRequests(i)) = 1
             /\ Len(Result) = Len(Matching)
             /\ \A k \in 1..Len(Matching) :
                  /\ Result[k].asset = Matching[k]
                  /\ Result[k].t = (IF responses[Matching[k]].status = 404
                                    THEN "PublisherFetchError" ELSE "Entry")

\* C6 as amended: ... the result is, in input order, one group of items per
\* kind-matching asset: the single FetchFailure of a 404 asset, and for each
\* other asset its entries and nothing else (exactly one entry for a spot
\* fetcher; for a future fetcher as many as the fetcher builds from the
\* response, possibly none).
C6_NotFoundNeverAborts ==
    (mode \in {"fetch", "fetch_sync"} /\ Only404OrSuccess)
    => /\ fpc # "raised"
       /\ fpc = "done"
          => /\ \A i \in MatchingSet : Cardinality(PrimaryRequests(i)) = 1
             /\ InAssetOrder
             /\ \A k \in 1..Len(Result) : Result[k].asset \in MatchingSet
             /\ \A i \in MatchingSet :
                  IF responses[i].status = 404
                  THEN ItemsOf(i) = <<[t |-> "PublisherFetchError", asset |-> i,
                                       message |-> NoDataMessage(assets[i], C5_Name(fetcher))]>>
                  ELSE /\ \A k \in 1..Len(ItemsOf(i)) :
                            /\ ItemsOf(i)[k].t = "Entry"
                            /\ ItemsOf(i)[k].pair_id = currency_pair_to_pair_id(assets[i].pair)
                       /\ fetcher \in SpotFetchers => Len(ItemsOf(i)) = 1

\* A run has returned with a 404 asset before a successful one: the failure
\* is followed by the other asset's entries.
C6_Witness ==
    /\ fpc = "done" /\ Only404OrSuccess
    /\ Len(Matching) = 2
    /\ responses[Matching[1]].status = 404
    /\ Success(responses[Matching[2]])
    /\ Len(ItemsOf(Matching[2])) >= 1

\* Exactly one kind-matching asset is answered with an unexpected content
\* type, the others with a 404 or a success.
OneFatal(i) ==
    /\ i \in MatchingSet
    /\ WrongContentType(responses[i])
    /\ \A j \in MatchingSet \ {i} : responses[j].status = 404 \/ Success(responses[j])

\* C7: in the concurrent fetch of every fetcher, a fatal error of one asset's
\* fetch does not leave fetch: fetch returns a list holding a fatal item for
\* that asset and, for every other kind-matching asset, its own entries or
\* FetchFailure.
C7_FatalIsCaptured ==
    \A i \in 1..Len(assets) :
        (mode = "fetch" /\ OneFatal(i))
        => /\ fpc # "raised"
           /\ fpc = "done"
              => /\ InAssetOrder
                 /\ Len(ItemsOf(i)) = 1 /\ ItemsOf(i)[1].t = "Exception"
                 /\ \A j \in MatchingSet \ {i} :
                      /\ \A k \in 1..Len(ItemsOf(j)) :
                            ItemsOf(j)[k].t = (IF responses[j].status = 404
                                               THEN "PublisherFetchError" ELSE "Entry")
                      /\ responses[j].status = 404 => Len(ItemsOf(j)) = 1

\* No kind-matching asset is answered with a fatal response: each gets a 404,
\* the not-recognized marker, or a success.
NoFatal ==
    \A i \in MatchingSet :
        \/ responses[i].status = 404
        \/ Success(responses[i])
        \/ (responses[i].status = 200 /\ responses[i].ctype_json /\ responses[i].body = "marker")

C8_Count(i) ==
    LET r == responses[i]
    IN  IF r.status = 404 \/ r.body = "marker" THEN 1
        ELSE IF fetcher \in SpotFetchers THEN 1
        ELSE IF fetcher = "BinanceFutureFetcher" THEN r.n
        ELSE IF r.n > 1 THEN r.n ELSE 0

C9_SpotFetcherSkipsFutures ==
    fetcher \in SpotFetchers
    => /\ \A k \in 1..Len(requests) : assets[requests[k].asset].type = "SPOT"
       /\ fpc = "raised"
          => /\ assets[pos].type = "SPOT"
             /\ (~responses[pos].ctype_json \/ responses[pos].body = "garbage")
       /\ fpc = "done"
          => /\ Len(Result) = Cardinality({i \in 1..Len(assets) : assets[i].type = "SPOT"})
             /\ \A k \in 1..Len(Result) :
                  /\ assets[Result[k].asset].type = "SPOT"
                  /\ \A j \in 1..Len(Result) : j < k => Result[j].asset < Result[k].asset

\* A spot fetcher has returned one result for a list of a future asset
\* followed by a spot asset.
C9_Witness ==
    /\ fetcher \in SpotFetchers /\ fpc = "done"
    /\ Len(assets) = 2
    /\ assets[1].type = "FUTURE" /\ assets[2].type = "SPOT"
    /\ Len(Result) = 1 /\ Result[1].asset = 2

\* A run failed: it raised, or it returned a list holding a captured exception.
Failed(o) ==
    \/ o.kind = "raise"
    \/ o.kind = "value" /\ \E k \in 1..Len(o.val) : o.val[k].t = "Exception"

\* C10: for every fetcher, asset list and assignment of source responses,
\* fetch and fetch_sync end alike: the same result list in the same order, or
\* a failure both.
C10_SyncMatchesAsync ==
    (mode = "fetch_sync" /\ fpc \in {"done", "raised"})
    => \/ outcome = async_outcome
       \/ Failed(outcome) /\ Failed(async_outcome)

\* C11: in the concurrent fetch of every fetcher, once the response to one
\* asset's primary request has been taken, the primary request of every
\* kind-matching asset has been sent: no request waits for another asset's
\* response.
C11_AllLaunchedBeforeAnyAwaited ==
    mode = "fetch"
    => \A k \in 1..Len(requests) :
         (requests[k].url = "primary" /\ requests[k].answered)
         => \A i \in MatchingSet : PrimaryRequests(i) # {}

\* What _fetch_pair makes of the response to the asset at position i, as
\* gather hands it back.
C12_Expected(i) ==
    LET res == FetchPair(fetcher, "fetch", assets[i], i, responses[i])
    IN  IF res.k = "raise" THEN ExceptionItem(res.exc, i) ELSE res.v

\* C12: in the concurrent fetch of a spot fetcher, whatever the order in which
\* the responses complete, item k of the returned list is the result for the
\* k-th kind-matching asset.
C12_ResultInInputOrder ==
    (Gathers /\ fpc = "done")
    => Result = [k \in 1..Len(Matching) |-> C12_Expected(Matching[k])]

\* fetch has returned after the second asset's response completed before the
\* first one's, the two assets having different results.
C12_Witness ==
    /\ Gathers /\ fpc = "done"
    /\ Len(tasks) = 2
    /\ tasks[2].rank = 1 /\ tasks[1].rank = 2
    /\ Result[1].t = "Entry" /\ Result[2].t = "PublisherFetchError"

\* The response to the primary request of the asset at position i was taken.
HandledAt(i) == \E k \in PrimaryRequests(i) : requests[k].answered

\* The fetch of the asset at position i ended in a raised exception.
RaisedFor(i) ==
    IF Gathers
    THEN \E t \in 1..Len(tasks) : tasks[t].asset = i /\ tasks[t].result.k = "raise"
    ELSE fpc = "raised" /\ pos = i /\ outcome.kind = "raise"

\* The fetch of the asset at position i yielded its not-found FetchFailure.
FailureFor(i) ==
    IF Gathers
    THEN \E t \in 1..Len(tasks) :
            tasks[t].asset = i /\ tasks[t].result = Item(NotFound(fetcher, assets[i], i))
    ELSE \E k \in 1..Len(f_entries) : f_entries[k] = NotFound(fetcher, assets[i], i)

\* C13: in fetch and fetch_sync alike, once the response to an asset is
\* taken: if it is not a 404 and its content type is not JSON the fetch of
\* that asset has raised (no FetchFailure, no Entry); if it is a 404 it has
\* yielded a FetchFailure, whatever the content type.
C13_WrongContentTypeRaises ==
    \A i \in MatchingSet :
        HandledAt(i)
        => /\ WrongContentType(responses[i]) => RaisedFor(i)
           /\ responses[i].status = 404 => FailureFor(i)

\* A JSON response, not a 404, carrying the source's not-recognized marker.
Marked(r) == r.status = 200 /\ r.ctype_json /\ r.body = "marker"

\* C14: when a source answers a non-404 response carrying its "symbol not
\* recognized" marker, the fetch of that asset does not raise and yields a
\* FetchFailure with the message "No data found for BASE/QUOTE from SOURCE".
C14_MarkerIsNotFound ==
    \A i \in MatchingSet :
        (HandledAt(i) /\ Marked(responses[i]))
        => /\ ~RaisedFor(i)
           /\ IF Gathers
              THEN \E t \in 1..Len(tasks) :
                      /\ tasks[t].asset = i /\ tasks[t].result.k = "item"
                      /\ tasks[t].result.v.t = "PublisherFetchError"
                      /\ tasks[t].result.v.message = NoDataMessage(assets[i], C5_Name(fetcher))
              ELSE \E k \in 1..Len(f_entries) :
                      /\ f_entries[k].asset = i
                      /\ f_entries[k].t = "PublisherFetchError"
                      /\ f_entries[k].message = NoDataMessage(assets[i], C5_Name(fetcher))

\* The primary request succeeds and the secondary lookups answer not-found.
SecondaryNotFound(r) ==
    r.status = 200 /\ r.ctype_json /\ r.body = "data" /\ r.sec = "404"

\* C15: when the primary request of an asset succeeds and its secondary
\* lookup (Binance 24h volume, OKX expiry) answers not-found, the fetch of
\* that asset raises nothing and a run that returns holds the asset's
\* entries.
C15_SecondaryNotFoundDegrades ==
    \A i \in MatchingSet :
        SecondaryNotFound(responses[i])
        => /\ ~(fpc = "raised" /\ pos = i)
           /\ fpc = "done"
              => /\ Len(ItemsOf(i)) = C8_Count(i)
                 /\ \A k \in 1..Len(ItemsOf(i)) : ItemsOf(i)[k].t = "Entry"

\* C29: in fetch_sync at most one request is outstanding, the last one
\* issued, and the requests are issued in the input order of their assets: a
\* request of a later asset is issued only when every request of the earlier
\* assets has been answered.
C29_OneRequestAtATime ==
    mode = "fetch_sync" =>
        /\ \A k \in 1..Len(requests) : ~requests[k].answered => k = Len(requests)
        /\ \A k, l \in 1..Len(requests) :
              k < l => /\ requests[k].asset <= requests[l].asset
                       /\ requests[k].answered

C29_Witness ==
    /\ mode = "fetch_sync" /\ fpc = "done"
    /\ fetcher = "BinanceFutureFetcher"
    /\ Len(requests) = 4
    /\ requests[1].asset = 1 /\ requests[2].asset = 1
    /\ requests[3].asset = 2 /\ requests[4].asset = 2

\* The expiry lookups made for instrument j of the asset at position i.
C34_ExpiryRequests(i, j) ==
    {k \in 1..Len(requests) :
        requests[k].asset = i /\ requests[k].url = "expiry" /\ requests[k].instrument = j}

\* C34: when fetch or fetch_sync of the OKX fetcher has returned, an asset
\* whose primary response was successful and listed n >= 1 instruments has
\* exactly n entries in the result, the j-th from the j-th instrument, and one
\* expiry lookup was made for each instrument; for n = 1 as for n > 1.
C34_OneEntryPerInstrument ==
    (fetcher = "OkxFutureFetcher" /\ mode \in {"fetch", "fetch_sync"} /\ fpc = "done")
    => \A i \in MatchingSet :
          (Success(responses[i]) /\ responses[i].n >= 1)
          => /\ Len(ItemsOf(i)) = responses[i].n
             /\ \A j \in 1..Len(ItemsOf(i)) :
                   /\ ItemsOf(i)[j].t = "Entry"
                   /\ ItemsOf(i)[j].instrument = j
             /\ \A j \in 1..responses[i].n : Cardinality(C34_ExpiryRequests(i, j)) = 1

-----------------------------------------------------------------------------
(* Properties of _construct *)

\* The observed prices of the payload, each with the integer price of the
\* entry built from it.
C16_Prices ==
    CASE c_fetcher = "CexFetcher" -> {<<c_data.last, c_entry.val.price>>}
      [] c_fetcher = "OkxFutureFetcher" -> {<<c_data.last, c_entry.val.price>>}
      [] c_fetcher = "CoinbaseFetcher" ->
            IF c_data.has_base
            THEN {<<[num |-> 1, exp |-> c_data.rate_exp], c_entry.val.price>>}
            ELSE {}
      [] c_fetcher = "BinanceFutureFetcher" ->
            {<<c_data.result[i].markPrice, c_entry.val[i].price>> : i \in 1..Len(c_data.result)}

\* k is an integer nearest to price * 10^decimals.
C16_Nearest(price, decimals, k) ==
    LET scaled == price.num * Pow(10, decimals)
        q == Pow(2, price.exp)
        diff == k * q - scaled
    IN  2 * (IF diff >= 0 THEN diff ELSE -diff) <= q

\* C16: for every observed price and every asset decimals d, the integer
\* price of the constructed entry is observed_price * 10^d rounded to the
\* nearest integer.
C16_PriceIsRounded ==
    c_entry.kind = "value"
    => \A pr \in C16_Prices : C16_Nearest(pr[1], c_asset.decimals, pr[2])

\* C17: in the entries BinanceFutureFetcher._construct builds, an instrument
\* whose symbol is exactly BASE+QUOTE has expiry_timestamp 0, and one whose
\* symbol is BASE+QUOTE_YYMMDD has the expiry of that date at 08:00:00 UTC in
\* the unit of the entry's timestamp field, seconds.
C17_ExpiryOfSymbol ==
    (c_fetcher = "BinanceFutureFetcher" /\ c_entry.kind = "value")
    => \A i \in 1..Len(c_data.result) :
         LET symbol == c_data.result[i].symbol
             entry == c_entry.val[i]
         IN  symbol.head = c_asset.pair
             => /\ symbol.parts = <<>> => entry.expiry_timestamp = ToWide(0)
                /\ (Len(symbol.parts) = 1 /\ Strptime(symbol.parts[1]).k = "item")
                   => entry.expiry_timestamp
                        = ToWide(TimestampAt8UTC(Strptime(symbol.parts[1]).v))

\* The symbol is exactly BASE+QUOTE, or BASE+QUOTE followed by _YYMMDD.
C35_OfPair(symbol, pair) ==
    /\ symbol.head = pair
    /\ \/ symbol.parts = <<>>
       \/ Len(symbol.parts) = 1 /\ symbol.parts[1].kind = "digits"

\* C35: every entry the Binance fetcher builds for an asset comes from an
\* instrument whose symbol is BASE+QUOTE or BASE+QUOTE_YYMMDD: an instrument of
\* another pair whose symbol contains BASE+QUOTE gives no entry under the
\* asset's pair id.
C35_EntriesOfThePairOnly ==
    (c_fetcher = "BinanceFutureFetcher" /\ c_entry.kind = "value")
    => /\ Len(c_entry.val) = Len(c_data.result)
       /\ \A i \in 1..Len(c_entry.val) :
             c_entry.val[i].pair_id = currency_pair_to_pair_id(c_asset.pair)
                => C35_OfPair(c_data.result[i].symbol, c_asset.pair)

-----------------------------------------------------------------------------
(* Properties of get_spot and get_future *)

\* C22: a get_spot or get_future call invokes at most one oracle operation,
\* and a call that returned has invoked exactly one, a read: get_data when
\* sources is None, get_data_for_sources when sources is a non-empty list.
C22_OneReadPerCall ==
    /\ Len(r_calls) <= 1
    /\ \A k \in 1..Len(r_calls) : r_calls[k].mode = "call"
    /\ r_pc = "done" =>
          /\ Len(r_calls) = 1
          /\ r_calls[1].fn \in {"get_data", "get_data_for_sources"}
          /\ r_sources.kind = "None" => r_calls[1].fn = "get_data"
          /\ (r_sources.kind = "list" /\ r_sources.v # <<>>)
                => r_calls[1].fn = "get_data_for_sources"

C22_Witness ==
    /\ r_pc = "done"
    /\ r_op = "get_spot"
    /\ r_sources = [kind |-> "list", v |-> <<"X", "Y">>]
    /\ Len(r_calls) = 1
    /\ r_calls[1].fn = "get_data_for_sources"

\* C23: the read invoked by get_spot or get_future is get_data_for_sources
\* exactly when sources is a non-empty list; with sources None or an empty
\* list it is get_data.
C23_Expected(sources) ==
    IF sources.kind = "list" /\ sources.v # <<>> THEN "get_data_for_sources" ELSE "get_data"

C23_RestrictedOnlyForNonEmptySources ==
    \A k \in 1..Len(r_calls) : r_calls[k].fn = C23_Expected(r_sources)

\* C24: the read is issued with the key of the integer id of the pair,
\* whether the pair was given as its symbol or as that integer, so both forms
\* give the same key; a pair_id that is neither a string nor an integer raises
\* TypeError and no read has been issued.
C24_KeyOf(id) ==
    IF r_op = "get_spot" THEN DataTypeSerialize("SPOT", id, <<>>)
    ELSE DataTypeSerialize("FUTURE", id, r_expiry[1])

C24_SameKeyOrTypeError ==
    /\ r_pair_id.type = "str" =>
          \A k \in 1..Len(r_calls) : r_calls[k].key = C24_KeyOf(str_to_felt(r_pair_id.s))
    /\ r_pair_id.type = "int" =>
          \A k \in 1..Len(r_calls) : r_calls[k].key = C24_KeyOf(r_pair_id.n)
    /\ (r_op \in ReadOps /\ r_pair_id.type \notin {"str", "int"}) =>
          /\ r_calls = <<>>
          /\ r_pc \in {"start", "raised"}
          /\ r_pc = "raised" => r_ret = Raised("TypeError")
    /\ r_ret = Raised("TypeError") => r_calls = <<>>

C24_Witness ==
    /\ r_op = "get_future"
    /\ r_pair_id = [type |-> "str", s |-> "ETH/USD", n |-> 0]
    /\ r_pc = "done"
    /\ r_calls[1].key = DataTypeSerialize("FUTURE", str_to_felt("ETH/USD"), 7)

-----------------------------------------------------------------------------
(* Properties of a publisher run *)

\* C28: nothing is retried. The write calls of one publish_many or
\* set_checkpoints call each start at a page offset of their own, so no page
\* is submitted twice, and a write call that failed is the last one of the
\* call; a fetcher issues at most one primary request per kind-matching asset
\* and none for the others, whatever the sources answer.
C28_NoRetries ==
    /\ \A c \in Callers :
          op[c] \in {"publish_many", "set_checkpoints"} =>
             LET ws == WritesBy(c)
             IN  /\ \A k, l \in 1..Len(ws) :
                       (ws[k].grp = ws[l].grp /\ ws[k].ix = ws[l].ix) => k = l
                 /\ \A k \in 1..Len(ws) : ws[k].status = "raised" => k = Len(ws)
    /\ \A i \in 1..Len(assets) :
          /\ Cardinality(PrimaryRequests(i)) <= 1
          /\ i \notin MatchingSet => PrimaryRequests(i) = {}

\* A publish_many whose second page failed: the call raised and sent nothing more.
C28_Witness ==
    \E c \in Callers :
        /\ op[c] = "publish_many" /\ pc[c] = "raised"
        /\ Len(entries[c]) = 3
        /\ Len(WritesBy(c)) = 2
        /\ WritesBy(c)[1].status = "returned"
        /\ WritesBy(c)[2].status = "raised"

====
